---------------------------- MODULE Spec2Model ----------------------------
(***************************************************************************)
(* Model of easybuild/tools/docs.py: the format dispatcher, the parameter  *)
(* catalog, the software catalog and the other report entry points.        *)
(*                                                                         *)
(* Strings.  A Python string is modelled as a sequence of chunks.  Data    *)
(* that the code sorts, compares or parses (names, versions, suffixes,     *)
(* toolchain labels) is a sequence of one-character chunks; fixed markup   *)
(* and fixed titles are one chunk each.  Concatenation is \o.  A text is   *)
(* the sequence of its lines, as the code builds it before '\n'.join.      *)
(***************************************************************************)
EXTENDS Integers, Sequences, FiniteSets, TLC

-----------------------------------------------------------------------------
(* Characters and Python's str ordering *)

LowerChars == <<"a","b","c","d","e","f","g","h","i","j","k","l","m",
                "n","o","p","q","r","s","t","u","v","w","x","y","z">>
UpperChars == <<"A","B","C","D","E","F","G","H","I","J","K","L","M",
                "N","O","P","Q","R","S","T","U","V","W","X","Y","Z">>
DigitChars == <<"0","1","2","3","4","5","6","7","8","9">>

Range(s) == {s[i] : i \in DOMAIN s}

IsDigit(c) == c \in Range(DigitChars)
IsLower(c) == c \in Range(LowerChars)
IsUpper(c) == c \in Range(UpperChars)

IndexIn(s, c) == CHOOSE i \in DOMAIN s : s[i] = c

\* ord(c) for the characters the model uses
ord(c) ==
    CASE IsDigit(c) -> 47 + IndexIn(DigitChars, c)
      [] IsUpper(c) -> 64 + IndexIn(UpperChars, c)
      [] IsLower(c) -> 96 + IndexIn(LowerChars, c)
      [] c = " " -> 32
      [] c = "%" -> 37
      [] c = "(" -> 40
      [] c = ")" -> 41
      [] c = "*" -> 42
      [] c = "-" -> 45
      [] c = "." -> 46
      [] c = "/" -> 47
      [] c = "_" -> 95

\* str.lower() and str.upper(), character by character
lower_char(c) == IF IsUpper(c) THEN LowerChars[IndexIn(UpperChars, c)] ELSE c
upper_char(c) == IF IsLower(c) THEN UpperChars[IndexIn(LowerChars, c)] ELSE c
lower(s) == [i \in DOMAIN s |-> lower_char(s[i])]
upper(s) == [i \in DOMAIN s |-> upper_char(s[i])]

Sign(n) == IF n < 0 THEN -1 ELSE IF n > 0 THEN 1 ELSE 0
MinOf(S) == CHOOSE x \in S : \A y \in S : x <= y

\* the order of two characters that differ
CharCmp(c, d) == IF ord(c) < ord(d) THEN -1 ELSE 1

\* the order of two strings that differ first at the least index of diffs
CmpAtFirstDiff(a, b, diffs) ==
    IF diffs = {} THEN Sign(Len(a) - Len(b))
    ELSE CharCmp(a[MinOf(diffs)], b[MinOf(diffs)])

\* three-way comparison of two strings, as Python's str <, ==, >
StrCmp(a, b) ==
    CmpAtFirstDiff(a, b, {i \in 1..(IF Len(a) < Len(b) THEN Len(a) ELSE Len(b)) : a[i] # b[i]})

\* sorted(S) for a collection of distinct strings: the string at position k is
\* the one that has k - 1 smaller strings
SortStrSet(S) ==
    [k \in 1..Cardinality(S) |->
        CHOOSE x \in S : Cardinality({y \in S : StrCmp(y, x) < 0}) = k - 1]

\* whether an element with comparison c of the keys and index j comes before
\* the element of index i in a stable sort
StableBefore(c, j, i) == c < 0 \/ (c = 0 /\ j < i)

\* sorted(seq) for a list of strings: a stable sort, the element at position k
\* is the one that has k - 1 elements before it
SortStrs(seq) ==
    [k \in 1..Len(seq) |->
        seq[CHOOSE i \in DOMAIN seq :
                Cardinality({j \in DOMAIN seq :
                    StableBefore(StrCmp(seq[j], seq[i]), j, i)}) = k - 1]]

\* sorted(seq, key=lambda x: x.lower()): a stable sort, the element at
\* position k is the one that has k - 1 elements before it
SortCI(seq) ==
    [k \in 1..Len(seq) |->
        seq[CHOOSE i \in DOMAIN seq :
                Cardinality({j \in DOMAIN seq :
                    StableBefore(StrCmp(lower(seq[j]), lower(seq[i])), j, i)}) = k - 1]]

\* nub (easybuild.tools.utilities): unique items, first occurrences kept in order
RECURSIVE nub(_)
nub(seq) ==
    IF seq = <<>> THEN <<>>
    ELSE LET front == nub(SubSeq(seq, 1, Len(seq) - 1))
             x == seq[Len(seq)]
         IN  IF x \in Range(front) THEN front ELSE Append(front, x)

\* sep.join(strs)
RECURSIVE join(_, _)
join(sep, strs) ==
    IF strs = <<>> THEN <<>>
    ELSE IF Len(strs) = 1 THEN strs[1]
    ELSE strs[1] \o sep \o join(sep, Tail(strs))

\* concatenation of a sequence of sequences
RECURSIVE Flatten(_)
Flatten(ss) == IF ss = <<>> THEN <<>> ELSE ss[1] \o Flatten(Tail(ss))

\* whether needle occurs in hay as a contiguous run of chunks (needle in hay)
Contains(hay, needle) ==
    \E i \in 0..(Len(hay) - Len(needle)) :
        \A j \in 1..Len(needle) : hay[i + j] = needle[j]


\* '%d' % n for n >= 0
RECURSIVE IntToStr(_)
IntToStr(n) ==
    IF n < 10 THEN <<DigitChars[n + 1]>>
    ELSE IntToStr(n \div 10) \o <<DigitChars[(n % 10) + 1]>>

\* int(digits)
RECURSIVE StrToInt(_)
StrToInt(ds) ==
    IF ds = <<>> THEN 0
    ELSE 10 * StrToInt(SubSeq(ds, 1, Len(ds) - 1)) + (IndexIn(DigitChars, ds[Len(ds)]) - 1)

-----------------------------------------------------------------------------
(* LooseVersion (easybuild.tools.loose_version, outside src/): the version  *)
(* string is split into runs of digits, runs of lowercase letters, dots     *)
(* and the text between them; dots are dropped and digit runs become        *)
(* integers.  Two versions are compared component by component, a missing   *)
(* component counting as '', components of different kinds as strings.      *)

CharClass(c) ==
    IF IsDigit(c) THEN "digits"
    ELSE IF IsLower(c) THEN "letters"
    ELSE IF c = "." THEN "dot" ELSE "other"

\* the length of the first run of vstring, k being the class of its first character
RunEnd(vstring, stops) == IF stops = {} THEN Len(vstring) ELSE MinOf(stops) - 1
RunLen(vstring, k) ==
    IF k = "dot" THEN 1
    ELSE RunEnd(vstring, {i \in 2..Len(vstring) : CharClass(vstring[i]) # k})

\* the component for a run: [isnum, n, s]
Component(k, piece) ==
    IF k = "digits" THEN [isnum |-> TRUE, n |-> StrToInt(piece), s |-> <<>>]
    ELSE [isnum |-> FALSE, n |-> 0, s |-> piece]

RECURSIVE LooseVersion(_)
Components(vstring, k, run) ==
    (IF k = "dot" THEN <<>> ELSE <<Component(k, SubSeq(vstring, 1, run))>>)
    \o LooseVersion(SubSeq(vstring, run + 1, Len(vstring)))
ComponentsFrom(vstring, k) == Components(vstring, k, RunLen(vstring, k))
LooseVersion(vstring) ==
    IF vstring = <<>> THEN <<>> ELSE ComponentsFrom(vstring, CharClass(vstring[1]))

ComponentStr(c) == IF c.isnum THEN IntToStr(c.n) ELSE c.s

ComponentCmp(x, y) ==
    IF x.isnum /\ y.isnum THEN Sign(x.n - y.n)
    ELSE StrCmp(ComponentStr(x), ComponentStr(y))

\* the component at index i, '' where the version has no more components
ComponentAt(v, i) == IF i <= Len(v) THEN v[i] ELSE [isnum |-> FALSE, n |-> 0, s |-> <<>>]
ComponentCmpAt(va, vb, i) == ComponentCmp(ComponentAt(va, i), ComponentAt(vb, i))

\* the order of two versions that differ first at the least index of diffs
VersionCmpAtFirstDiff(va, vb, diffs) ==
    IF diffs = {} THEN 0 ELSE ComponentCmpAt(va, vb, MinOf(diffs))

VersionCmp(va, vb) ==
    VersionCmpAtFirstDiff(va, vb,
        {i \in 1..(IF Len(va) > Len(vb) THEN Len(va) ELSE Len(vb)) :
            ComponentCmpAt(va, vb, i) # 0})

\* LooseVersion._cmp
LooseVersionCmp(a, b) == VersionCmp(LooseVersion(a), LooseVersion(b))

-----------------------------------------------------------------------------
(* Lines and tables.  A line of a document is a record: a text line holds   *)
(* its chunks in s; a line of a table holds its cells in cells.             *)

Line(s) == [t |-> "line", s |-> s, cells |-> <<>>]
TableLine(t, cells) == [t |-> t, s |-> <<>>, cells |-> cells]

\* the value None for an absent title
None == <<"None">>

NumRows(columns) == IF columns = <<>> THEN 0 ELSE Len(columns[1])

TableRows(columns) ==
    [i \in 1..NumRows(columns) |->
        TableLine("row", [c \in DOMAIN columns |-> columns[c][i]])]

\* mk_md_table (easybuild.tools.utilities, outside src/): a header row, the
\* separator row, then one pipe-delimited row per row index
mk_md_table(titles, columns) ==
    <<TableLine("header", titles), TableLine("rule", <<>>)>> \o TableRows(columns)

\* mk_rst_table (easybuild.tools.utilities, outside src/): a grid with a rule
\* above and below the header and below the rows, then an empty line
mk_rst_table(titles, columns) ==
    <<TableLine("rule", <<>>), TableLine("header", titles), TableLine("rule", <<>>)>>
    \o TableRows(columns) \o <<TableLine("rule", <<>>), Line(<<>>)>>

\* '#' * title_level + ' '
Hashes(title_level) ==
    CASE title_level = 1 -> "# " [] title_level = 2 -> "## " [] title_level = 3 -> "### "

\* a table that drops the title it is given
md_table_without_title(title, table_titles, table_values, title_level) ==
    mk_md_table(table_titles, table_values)

md_title_and_table(title, table_titles, table_values, title_level) ==
    (IF title # None THEN <<Line(<<Hashes(title_level)>> \o title), Line(<<>>)>> ELSE <<>>)
    \o mk_md_table(table_titles, table_values)

\* ch * len(title): the underline of a title, one ch for each chunk of the title
Underline(ch, title) == [i \in DOMAIN title |-> ch]

rst_title_and_table(title, table_titles, table_values) ==
    (IF title # None THEN <<Line(title), Line(Underline("-", title)), Line(<<>>)>> ELSE <<>>)
    \o mk_rst_table(table_titles, table_values)

\* '\n'.join(lines): the text '' has no line at all
JoinLines(lines) == IF lines = <<Line(<<>>)>> THEN <<>> ELSE lines

\* what a call gives back: the returned text, or the exception raised
Return(lines) == [kind |-> "return", text |-> JoinLines(lines), msg |-> <<>>]
Raise(kind, msg) == [kind |-> kind, text |-> <<>>, msg |-> msg]

-----------------------------------------------------------------------------
(* The software catalog: list_software and its renderers *)

\* an ordered dict name -> list of entries: a sequence of [key, entries]
DictKeys(d) == [i \in DOMAIN d |-> d[i].key]
HasKey(d, k) == \E i \in DOMAIN d : d[i].key = k
DictGet(d, k) == d[CHOOSE i \in DOMAIN d : d[i].key = k].entries

\* d.setdefault(k, []).append(entry)
SetDefaultAppend(d, k, entry) ==
    IF HasKey(d, k)
    THEN [i \in DOMAIN d |->
            IF d[i].key = k THEN [d[i] EXCEPT !.entries = Append(@, entry)] ELSE d[i]]
    ELSE Append(d, [key |-> k, entries |-> <<entry>>])

\* ' '.join(description.split('\n'))
UnwrapLines(descr) == [i \in DOMAIN descr |-> IF descr[i] = "\n" THEN " " ELSE descr[i]]

\* s.lstrip(' ')
RECURSIVE lstrip(_)
lstrip(str) == IF str # <<>> /\ str[1] = " " THEN lstrip(Tail(str)) ELSE str

\* s.strip() of an unwrapped description
RECURSIVE rstrip(_)
rstrip(str) ==
    IF str # <<>> /\ str[Len(str)] = " " THEN rstrip(SubSeq(str, 1, Len(str) - 1)) ELSE str

\* the first of three comparisons that is not 0
Lex3(c1, c2, c3) == IF c1 # 0 THEN c1 ELSE IF c2 # 0 THEN c2 ELSE c3

\* comparison of (v, vs) tuples as plain strings
PairCmpLexical(p, q) == Lex3(StrCmp(p[1], q[1]), StrCmp(p[2], q[2]), 0)

\* comparison of (LooseVersion(v), vs, v) tuples; a pair is <<v, vs>>
PairCmp(p, q) == Lex3(LooseVersionCmp(p[1], q[1]), StrCmp(p[2], q[2]), StrCmp(p[1], q[1]))

\* sorted((LooseVersion(v), vs, v) for v, vs in pairs): a stable sort, the pair
\* at position k is the one that has k - 1 pairs before it
SortPairs(pairs) ==
    [k \in 1..Len(pairs) |->
        pairs[CHOOSE i \in DOMAIN pairs :
                Cardinality({j \in DOMAIN pairs :
                    StableBefore(PairCmp(pairs[j], pairs[i]), j, i)}) = k - 1]]

\* the pairs of all entries, repeated ones included
pairs_with_repeats(entries) ==
    [i \in DOMAIN entries |-> <<entries[i].version, entries[i].versionsuffix>>]

\* pairs = nub((x['version'], x['versionsuffix']) for x in software[key])
pairs_of(entries) == nub([i \in DOMAIN entries |-> <<entries[i].version, entries[i].versionsuffix>>])

sorted_pairs(entries) == SortPairs(pairs_of(entries))

\* tcs = [x['toolchain'] for x in software[key] if x['version'] == ver and
\*        x['versionsuffix'] == vsuff]
SelectSeq2(seq, ver, vsuff) ==
    LET F[i \in 0..Len(seq)] ==
            IF i = 0 THEN <<>>
            ELSE IF seq[i].version = ver /\ seq[i].versionsuffix = vsuff
                 THEN Append(F[i - 1], seq[i].toolchain) ELSE F[i - 1]
    IN  F[Len(seq)]

\* sorted(nub(tcs))
toolchains_of(entries, ver, vsuff) == SortStrs(nub(SelectSeq2(entries, ver, vsuff)))

\* the backtick character (a string of the model cannot hold one)
BQ == "<backtick>"

\* '``%s``' % str
BQ2 == "<backtick><backtick>"
Quoted(str) == <<BQ2>> \o str \o <<BQ2>>

\* ', '.join('``%s``' % tc for tc in sorted(nub(tcs)))
QuotedList(tcs) == join(<<", ">>, [j \in DOMAIN tcs |-> Quoted(tcs[j])])

\* a versionsuffix column whatever the pairs
with_vsuff_always(pairs) == TRUE

\* with_vsuff = any(vs for (_, vs) in pairs)
with_vsuff(pairs) == \E i \in DOMAIN pairs : pairs[i][2] # <<>>

\* the columns that the loop over sorted_pairs fills
version_column(sp) == [i \in DOMAIN sp |-> Quoted(sp[i][1])]
versionsuffix_column(sp) ==
    [i \in DOMAIN sp |-> IF sp[i][2] # <<>> THEN Quoted(sp[i][2]) ELSE <<>>]
toolchain_column(entries, sp) ==
    [i \in DOMAIN sp |-> QuotedList(toolchains_of(entries, sp[i][1], sp[i][2]))]

table_titles(has_vsuff) ==
    IF has_vsuff THEN <<<<"version">>, <<"versionsuffix">>, <<"toolchain">>>>
    ELSE <<<<"version">>, <<"toolchain">>>>

table_values(entries, sp, has_vsuff) ==
    IF has_vsuff
    THEN <<version_column(sp), versionsuffix_column(sp), toolchain_column(entries, sp)>>
    ELSE <<version_column(sp), toolchain_column(entries, sp)>>

\* the version table of one software name (list_software_md; list_software_rst
\* repeats the same statements)
version_table(entries) ==
    [titles |-> table_titles(with_vsuff(pairs_of(entries))),
     values |-> table_values(entries, sorted_pairs(entries), with_vsuff(pairs_of(entries)))]

\* the first character as it is written
FirstChar(key) == key[1]

\* k[0].lower()
FirstLetter(key) == lower_char(key[1])

\* nub(sorted(k[0].lower() for k in software.keys()))
key_letters(software) == {FirstLetter(software[i].key) : i \in DOMAIN software}

\* the elements of ascii_lowercase that are in key_letters, in alphabetical order
IndexLetters(software) ==
    LET F[i \in 0..Len(LowerChars)] ==
            IF i = 0 THEN <<>>
            ELSE IF LowerChars[i] \in key_letters(software)
                 THEN Append(F[i - 1], LowerChars[i]) ELSE F[i - 1]
    IN  F[Len(LowerChars)]

\* the keys of sorted_keys whose first letter is letter, in the order of sorted_keys
KeysOfLetter(sorted_keys, letter) ==
    LET F[i \in 0..Len(sorted_keys)] ==
            IF i = 0 THEN <<>>
            ELSE IF FirstLetter(sorted_keys[i]) = letter
                 THEN Append(F[i - 1], sorted_keys[i]) ELSE F[i - 1]
    IN  F[Len(sorted_keys)]

SoftwareTitle == <<"List of supported software">>

\* the first entry of a software name instead of the last
FirstOf(seq) == seq[1]

\* software[key][-1]
LastOf(seq) == seq[Len(seq)]

\* whether the key at position i starts a new letter
NewLetter(sorted_keys, i) ==
    i = 1 \/ FirstLetter(sorted_keys[i - 1]) # FirstLetter(sorted_keys[i])

\* the subsection for a new letter, with the quick links per software package
list_software_md_letter(letter, keys_of_letter, detailed) ==
    <<Line(<<>>), Line(<<"## ", upper_char(letter)>>), Line(<<>>)>>
    \o (IF detailed
        THEN <<Line(<<>>),
               Line(join(<<" - ">>, [j \in DOMAIN keys_of_letter |->
                     <<"[">> \o keys_of_letter[j] \o <<"](#">> \o lower(keys_of_letter[j])
                     \o <<")">>])),
               Line(<<>>)>>
        ELSE <<>>)

\* what the loop appends for one key; last is software[key][-1]
list_software_md_entry(key, last, tbl, detailed) ==
    IF detailed
    THEN <<Line(<<>>), Line(<<"### ">> \o key), Line(<<>>),
           Line(lstrip(UnwrapLines(last.description))), Line(<<>>),
           Line(<<"*homepage*: <">> \o last.homepage \o <<">">>), Line(<<>>)>>
         \o md_title_and_table(None, tbl.titles, tbl.values, 1)
    ELSE <<Line(<<"* ">> \o key)>>

list_software_md_key(software, sorted_keys, i, detailed) ==
    (IF NewLetter(sorted_keys, i)
     THEN list_software_md_letter(FirstLetter(sorted_keys[i]),
                                  KeysOfLetter(sorted_keys, FirstLetter(sorted_keys[i])),
                                  detailed)
     ELSE <<>>)
    \o list_software_md_entry(sorted_keys[i], LastOf(DictGet(software, sorted_keys[i])),
                              version_table(DictGet(software, sorted_keys[i])), detailed)

\* '[a](#a) - [b](#b)'
list_software_md_links(letters) ==
    join(<<" - ">>, [i \in DOMAIN letters |-> <<"[", letters[i], "](#", letters[i], ")">>])

list_software_md_lines(software, sorted_keys, detailed) ==
    <<Line(<<"# ">> \o SoftwareTitle), Line(<<>>),
      Line(<<"EasyBuild supports ">> \o IntToStr(Len(software))
           \o <<" different software packages (incl. toolchains, bundles):">>),
      Line(<<>>), Line(list_software_md_links(IndexLetters(software))), Line(<<>>)>>
    \o Flatten([i \in DOMAIN sorted_keys |->
                    list_software_md_key(software, sorted_keys, i, detailed)])

list_software_md(software, detailed) ==
    list_software_md_lines(software, SortCI(DictKeys(software)), detailed)

\* 'list_software_%s_%d' % (name, sum(ord(letter) for letter in name))
RECURSIVE SumOrd(_)
SumOrd(name) == IF name = <<>> THEN 0 ELSE ord(name[1]) + SumOrd(Tail(name))
key_to_ref(name) == <<"list_software_">> \o name \o <<"_">> \o IntToStr(SumOrd(name))

list_software_rst_letter(letter, keys_of_letter, detailed) ==
    <<Line(<<>>), Line(<<".. _list_software_letter_", letter, ":">>), Line(<<>>),
      Line(<<"*", upper_char(letter), "*">>), Line(<<"-", "-", "-">>), Line(<<>>)>>
    \o (IF detailed
        THEN <<Line(<<>>),
               Line(join(<<" - ">>, [j \in DOMAIN keys_of_letter |->
                     <<":ref:", BQ>> \o key_to_ref(keys_of_letter[j]) \o <<BQ>>])),
               Line(<<>>)>>
        ELSE <<>>)

list_software_rst_entry(key, last, tbl, detailed) ==
    IF detailed
    THEN <<Line(<<>>), Line(<<".. _">> \o key_to_ref(key) \o <<":">>), Line(<<>>),
           Line(<<"*">> \o key \o <<"*">>),
           Line(Underline("+", key) \o <<"+", "+">>), Line(<<>>),
           Line(lstrip(UnwrapLines(last.description))), Line(<<>>),
           Line(<<"*homepage*: ">> \o last.homepage), Line(<<>>)>>
         \o rst_title_and_table(None, tbl.titles, tbl.values)
    ELSE <<Line(<<"* ">> \o key)>>

list_software_rst_key(software, sorted_keys, i, detailed) ==
    (IF NewLetter(sorted_keys, i)
     THEN list_software_rst_letter(FirstLetter(sorted_keys[i]),
                                   KeysOfLetter(sorted_keys, FirstLetter(sorted_keys[i])),
                                   detailed)
     ELSE <<>>)
    \o list_software_rst_entry(sorted_keys[i], LastOf(DictGet(software, sorted_keys[i])),
                               version_table(DictGet(software, sorted_keys[i])), detailed)

list_software_rst_refs(letters) ==
    join(<<" - ">>,
         [i \in DOMAIN letters |-> <<":ref:", BQ, "list_software_letter_", letters[i], BQ>>])

list_software_rst_lines(software, sorted_keys, detailed) ==
    <<Line(SoftwareTitle), Line(Underline("=", SoftwareTitle)), Line(<<>>),
      Line(<<"EasyBuild |version| supports ">> \o IntToStr(Len(software))
           \o <<" different software packages (incl. toolchains, bundles):">>),
      Line(<<>>), Line(list_software_rst_refs(IndexLetters(software))), Line(<<>>)>>
    \o Flatten([i \in DOMAIN sorted_keys |->
                    list_software_rst_key(software, sorted_keys, i, detailed)])

list_software_rst(software, detailed) ==
    list_software_rst_lines(software, SortCI(DictKeys(software)), detailed)

\* the line of one version and versionsuffix of key
list_software_txt_version(key, ver, vsuff, tcs) ==
    Line(<<"  * ">> \o key \o <<" v">> \o ver
         \o (IF vsuff # <<>> THEN <<" (versionsuffix: '">> \o vsuff \o <<"')">> ELSE <<>>)
         \o <<": ">> \o join(<<", ">>, tcs))

list_software_txt_versions(key, entries, sp) ==
    [j \in DOMAIN sp |->
        list_software_txt_version(key, sp[j][1], sp[j][2],
                                  toolchains_of(entries, sp[j][1], sp[j][2]))]

\* what the loop appends for one key
list_software_txt_entry(key, entries, detailed) ==
    <<Line(<<"* ">> \o key)>>
    \o (IF detailed
        THEN <<Line(<<>>), Line(UnwrapLines(LastOf(entries).description)), Line(<<>>),
               Line(<<"homepage: ">> \o LastOf(entries).homepage), Line(<<>>)>>
             \o list_software_txt_versions(key, entries, sorted_pairs(entries))
             \o <<Line(<<>>)>>
        ELSE <<>>)

list_software_txt_lines(software, sorted_keys, detailed) ==
    <<Line(<<>>)>>
    \o Flatten([i \in DOMAIN sorted_keys |->
                    list_software_txt_entry(sorted_keys[i], DictGet(software, sorted_keys[i]),
                                            detailed)])

list_software_txt(software, detailed) ==
    list_software_txt_lines(software, SortCI(DictKeys(software)), detailed)


\* json.dumps(entry, indent=4, sort_keys=True, ...): the members in key order,
\* each "key": value, kept as the cells of one element of lines
JsonKeys(with_mod_name) ==
    IF with_mod_name
    THEN <<"description", "homepage", "mod_name", "name", "toolchain", "version", "versionsuffix">>
    ELSE <<"description", "homepage", "name", "toolchain", "version", "versionsuffix">>

JsonMember(k, v) == <<k, ": ">> \o v

json_dumps(entry, key, detailed) ==
    IF detailed
    THEN LET ks == JsonKeys("mod_name" \in DOMAIN entry)
             val(k) == IF k = "name" THEN key
                       ELSE IF k = "description"
                            THEN rstrip(lstrip(UnwrapLines(entry.description)))
                            ELSE entry[k]
         IN  [i \in DOMAIN ks |-> JsonMember(ks[i], val(ks[i]))]
    ELSE <<JsonMember("name", key)>>

list_software_json(software, detailed) ==
    LET sorted_keys == SortCI(DictKeys(software))
        objs(key) ==
            LET entries == DictGet(software, key)
                n == IF detailed THEN Len(entries) ELSE IF Len(entries) > 0 THEN 1 ELSE 0
            IN  [j \in 1..n |->
                    [t |-> "json", s |-> <<",">>, cells |-> json_dumps(entries[j], key, detailed)]]
        body == Flatten([i \in DOMAIN sorted_keys |-> objs(sorted_keys[i])])
        \* lines[-1] = lines[-1].rstrip(',') when len(lines) > 1
        stripped == [i \in DOMAIN body |->
                        IF i = Len(body) THEN [body[i] EXCEPT !.s = <<>>] ELSE body[i]]
    IN  <<Line(<<"[">>)>> \o stripped \o <<Line(<<"]">>)>>

\* the assignments of the loop made to the entry of the mapping itself
json_entry_in_place(entry, key, detailed) ==
    IF detailed
    THEN ("name" :> key)
         @@ [entry EXCEPT !.description = rstrip(lstrip(UnwrapLines(entry.description)))]
    ELSE entry

\* Lines 1086-1092: the entry of the mapping after one pass of the loop; the
\* assignments go to a deep copy when detailed, to a new dict otherwise
json_entry(entry, key, detailed) == entry

\* the mapping after list_software_json returned: the loop passes every entry
\* of a name when detailed, the first entry only otherwise
list_software_json_mapping(software, detailed) ==
    [i \in DOMAIN software |->
        [software[i] EXCEPT !.entries =
            [j \in DOMAIN software[i].entries |->
                IF detailed \/ j = 1
                THEN json_entry(software[i].entries[j], software[i].key, detailed)
                ELSE software[i].entries[j]]]]

-----------------------------------------------------------------------------
(* Template resolution in list_software *)

\* the placeholders the recipes of the model use, with the key each names;
\* "%(name)" lacks its conversion character, "%(name)d" asks for a number
Placeholders ==
    {"%(name)s", "%(namelower)s", "%(version)s", "%(nosuch)s", "%(name)", "%(name)d"}
PlaceholderKey(ph) ==
    CASE ph = "%(name)s" -> "name"
      [] ph = "%(namelower)s" -> "namelower"
      [] ph = "%(version)s" -> "version"
      [] ph = "%(nosuch)s" -> "nosuch"
      [] ph = "%(name)" -> "name"
      [] ph = "%(name)d" -> "name"

\* '%(' in value
HasTemplate(value) ==
    \/ \E i \in DOMAIN value : value[i] \in Placeholders
    \/ \E i \in 1..(Len(value) - 1) : value[i] = "%" /\ value[i + 1] = "("

\* template_constant_dict(ec) (easybuild.framework.easyconfig.templates, outside
\* src/): the values the recipe itself defines
template_constant_dict(ec) ==
    [name |-> ec.name, namelower |-> lower(ec.name), version |-> ec.version]

\* value % template_values: the text, or the exception the formatting raises at
\* the first conversion that fails; the values of template_values are strings
PercentFormat(value, template_values) ==
    LET bad(i) ==
            \/ value[i] = "%"
            \/ value[i] = "%(name)"
            \/ value[i] = "%(name)d"
            \/ value[i] \in Placeholders /\ PlaceholderKey(value[i]) \notin DOMAIN template_values
        errs == {i \in DOMAIN value : bad(i)}
    IN  IF errs # {}
        THEN LET i == MinOf(errs)
             IN  [ok |-> FALSE, val |-> value,
                  err |-> IF value[i] \in {"%", "%(name)"} THEN "ValueError"
                          ELSE IF PlaceholderKey(value[i]) \notin DOMAIN template_values
                          THEN "KeyError" ELSE "TypeError"]
        ELSE [ok |-> TRUE, err |-> "",
              val |-> Flatten([i \in DOMAIN value |->
                        IF value[i] \in Placeholders
                        THEN template_values[PlaceholderKey(value[i])] ELSE <<value[i]>>])]

\* a value that is lost when its templates cannot be resolved
resolve_value_or_empty(value, template_values) ==
    IF value # <<>> /\ HasTemplate(value)
    THEN LET r == PercentFormat(value, template_values)
         IN  IF r.ok THEN r.val ELSE <<>>
    ELSE value

\* info[key] after the try/except around info[key] % template_values, which
\* catches KeyError, TypeError and ValueError
resolve_value(value, template_values) ==
    IF value # <<>> /\ HasTemplate(value)
    THEN LET r == PercentFormat(value, template_values)
         IN  IF r.ok THEN r.val ELSE value
    ELSE value

-----------------------------------------------------------------------------
(* list_software *)

SYSTEM_TOOLCHAIN_NAME == <<"s","y","s","t","e","m">>

\* is_system_toolchain (easybuild.tools.toolchain.toolchain, outside src/)
is_system_toolchain(tc_name) == tc_name = SYSTEM_TOOLCHAIN_NAME

InfoKeys == <<"description", "homepage", "version", "versionsuffix">>

\* process_easyconfig(ec_path, validate=False, parse_only=True)[0]['ec'] (outside
\* src/): an EasyConfig, which resolves the templates of a value when it is read
\* and knows the name of its module
EasyConfigValue(ec, key) ==
    LET r == PercentFormat(ec[key], template_constant_dict(ec))
    IN  IF r.ok THEN r.val ELSE ec[key]

full_mod_name(ec) ==
    ec.name \o <<"/">> \o EasyConfigValue(ec, "version")
    \o (IF is_system_toolchain(ec.toolchain.name) THEN <<>>
        ELSE <<"-">> \o ec.toolchain.name \o <<"-">> \o ec.toolchain.version)
    \o EasyConfigValue(ec, "versionsuffix")

\* the entry that one pass of the loop over ecs appends to software[ec['name']]
software_entry(ec, only_installed) ==
    LET toolchain == IF is_system_toolchain(ec.toolchain.name) THEN SYSTEM_TOOLCHAIN_NAME
                     ELSE ec.toolchain.name \o <<"/">> \o ec.toolchain.version
        \* isinstance(ec, dict) holds for the shallow parse only
        is_dict == ~only_installed
        template_values == template_constant_dict(ec)
        val(key) == IF is_dict THEN resolve_value(ec[key], template_values)
                    ELSE EasyConfigValue(ec, key)
        info == [toolchain |-> toolchain, description |-> val("description"),
                 homepage |-> val("homepage"), version |-> val("version"),
                 versionsuffix |-> val("versionsuffix")]
    IN  IF only_installed
        THEN [toolchain |-> info.toolchain, description |-> info.description,
              homepage |-> info.homepage, version |-> info.version,
              versionsuffix |-> info.versionsuffix, mod_name |-> full_mod_name(ec)]
        ELSE info

\* software after the loop over ecs
RECURSIVE software_of(_, _)
software_of(ecs, only_installed) ==
    IF ecs = <<>> THEN <<>>
    ELSE LET ec == ecs[Len(ecs)]
         IN  SetDefaultAppend(software_of(SubSeq(ecs, 1, Len(ecs) - 1), only_installed),
                              ec.name, software_entry(ec, only_installed))

\* every entry kept, whatever the available modules
RECURSIVE retain_all_entries(_, _, _, _)
retain_all_entries(software, key, entries, avail_mod_names) ==
    IF entries = <<>> THEN software
    ELSE SetDefaultAppend(retain_all_entries(software, key,
                                             SubSeq(entries, 1, Len(entries) - 1),
                                             avail_mod_names),
                          key, entries[Len(entries)])

\* for entry in entries: if entry['mod_name'] in avail_mod_names:
\*     software.setdefault(key, []).append(entry)
RECURSIVE retain_entries(_, _, _, _)
retain_entries(software, key, entries, avail_mod_names) ==
    IF entries = <<>> THEN software
    ELSE LET entry == entries[Len(entries)]
             before == retain_entries(software, key, SubSeq(entries, 1, Len(entries) - 1),
                                      avail_mod_names)
         IN  IF entry.mod_name \in avail_mod_names
             THEN SetDefaultAppend(before, key, entry) ELSE before

\* the rebuilt software: only entries with a corresponding available module
RECURSIVE retain_installed(_, _)
retain_installed(all_software, avail_mod_names) ==
    IF all_software = <<>> THEN <<>>
    ELSE LET item == all_software[Len(all_software)]
         IN  retain_entries(retain_installed(SubSeq(all_software, 1, Len(all_software) - 1),
                                             avail_mod_names),
                            item.key, item.entries, avail_mod_names)

-----------------------------------------------------------------------------
(* The parameter catalog: avail_easyconfig_params and its renderers *)

\* The categories of easyconfig parameters (easybuild.framework.easyconfig.default,
\* outside src/): a category is <<order, group name>>; docs.py reads the group
\* name as category[1] and compares a parameter's category to the whole tuple.
CatHidden == <<-1, <<"h","i","d","d","e","n">>>>
CatMandatory == <<0, <<"m","a","n","d","a","t","o","r","y">>>>
CatCustom == <<1, <<"e","a","s","y","b","l","o","c","k","-","s","p","e","c","i","f","i","c">>>>
CatBuild == <<3, <<"b","u","i","l","d">>>>
ALL_CATEGORIES == {CatHidden, CatMandatory, CatCustom, CatBuild}

\* HIDDEN as docs.py line 445 tests it, against the upper-cased group name
HIDDEN == <<"H","I","D","D","E","N">>

\* sorted_categories(): the categories in the order of their numbers
RECURSIVE SortCategories(_)
SortCategories(S) ==
    IF S = {} THEN <<>>
    ELSE LET m == CHOOSE c \in S : \A d \in S : c[1] <= d[1]
         IN  <<m>> \o SortCategories(S \ {m})
sorted_categories == SortCategories(ALL_CATEGORIES)

\* quote_str (easybuild.tools.utilities, outside src/) and str(): a string
\* default is quoted, None is printed as None
quote_str(dflt) == IF dflt = None THEN <<"None">> ELSE <<"'">> \o dflt \o <<"'">>

\* an update that keeps the value of a key that d has already
dict_setdefault(d, e) ==
    [k \in (DOMAIN d) \cup (DOMAIN e) |-> IF k \in DOMAIN d THEN d[k] ELSE e[k]]

\* a dict of parameters: a function from names to <<default, description, category>>
\* d.update(e)
dict_update(d, e) ==
    [k \in (DOMAIN d) \cup (DOMAIN e) |-> IF k \in DOMAIN e THEN e[k] ELSE d[k]]

EmptyDict == [k \in {} |-> <<>>]

\* params = DEFAULT_CONFIG: the reference of the same object
copy_alias(ref) == ref

\* copy.deepcopy(obj): the reference of a new object; the heap of a request holds
\* the module's DEFAULT_CONFIG under "DEFAULT_CONFIG" and the copy under "params"
copy_deepcopy(ref) == "params"

\* the reverse mapping {v: k for k, v in ALTERNATIVE_EASYCONFIG_PARAMETERS.items()}
reverse_mapping(alternatives) ==
    LET canon == {alternatives[k] : k \in DOMAIN alternatives}
    IN  [v \in canon |-> CHOOSE k \in DOMAIN alternatives : alternatives[k] = v]

\* a name left without the marker
Unmarked(name) == name

\* '%s*' % name
Marked(name) == name \o <<"*">>

\* the parameters of all categories, in the group of any one
group_of_any(params, extra_params, category) ==
    [k \in {IF n \in DOMAIN extra_params THEN Marked(n) ELSE n : n \in DOMAIN params} |->
        LET n == CHOOSE n \in DOMAIN params :
                    k = IF n \in DOMAIN extra_params THEN Marked(n) ELSE n
        IN  <<params[n][2], params[n][1]>>]

\* the parameters of one category: grouped_params[grpname] after the inner loop
group_of(params, extra_params, category) ==
    LET names == {n \in DOMAIN params : params[n][3] = category}
        shown(n) == IF n \in DOMAIN extra_params THEN Marked(n) ELSE n
        \* names are visited in sorted order; a later update of the same key wins
        src(k) == LET cands == {n \in names : shown(n) = k}
                  IN  CHOOSE n \in cands : \A m \in cands : StrCmp(m, n) <= 0
    IN  [k \in {shown(n) : n \in names} |-> <<params[src(k)][2], params[src(k)][1]>>]

\* the groups of all categories, the hidden one included
RECURSIVE group_params_unfiltered(_, _, _)
group_params_unfiltered(params, extra_params, categories) ==
    IF categories = <<>> THEN <<>>
    ELSE IF DOMAIN group_of(params, extra_params, categories[1]) = {}
    THEN group_params_unfiltered(params, extra_params, Tail(categories))
    ELSE <<[key |-> categories[1][2],
            params |-> group_of(params, extra_params, categories[1])]>>
         \o group_params_unfiltered(params, extra_params, Tail(categories))

\* grouped_params: an ordered dict group name -> {name: (descr, dflt)}, as a
\* sequence of [key, params]
RECURSIVE group_params(_, _, _)
group_params(params, extra_params, categories) ==
    IF categories = <<>> THEN <<>>
    ELSE LET category == categories[1]
             rest == group_params(params, extra_params, Tail(categories))
             grp == group_of(params, extra_params, category)
         IN  IF upper(category[2]) \in {HIDDEN} THEN rest
             ELSE IF DOMAIN grp = {} THEN rest
             ELSE <<[key |-> category[2], params |-> grp]>> \o rest

ParamsTitle == <<"Available easyconfig parameters">>

ParamsTableTitles ==
    <<<<"**Parameter name**">>, <<"**Description**">>, <<"**Default value**">>,
      <<"**Alternative name**">>>>

avail_easyconfig_params_md(title, grouped_params, alternative_params) ==
    LET grp(g) ==
            LET grpname == grouped_params[g].key
                gp == grouped_params[g].params
                gtitle == <<upper_char(grpname[1])>> \o Tail(grpname) \o <<" parameters">>
                keys == SortStrSet(DOMAIN gp)
                values == <<[i \in DOMAIN keys |-> <<BQ>> \o keys[i] \o <<BQ>>],
                            [i \in DOMAIN keys |-> gp[keys[i]][1]],
                            [i \in DOMAIN keys |-> <<BQ>> \o quote_str(gp[keys[i]][2]) \o <<BQ>>],
                            [i \in DOMAIN keys |->
                                IF keys[i] \in DOMAIN alternative_params
                                THEN <<BQ>> \o alternative_params[keys[i]] \o <<BQ>>
                                ELSE <<>>]>>
            IN  md_title_and_table(gtitle, ParamsTableTitles, values, 2) \o <<Line(<<>>)>>
    IN  <<Line(<<"# ">> \o title), Line(<<>>)>>
        \o Flatten([g \in DOMAIN grouped_params |-> grp(g)])

avail_easyconfig_params_rst(title, grouped_params, alternative_params) ==
    LET grp(g) ==
            LET grpname == grouped_params[g].key
                gp == grouped_params[g].params
                gtitle == grpname \o <<" parameters">>
                keys == SortStrSet(DOMAIN gp)
                values == <<[i \in DOMAIN keys |-> Quoted(keys[i])],
                            [i \in DOMAIN keys |-> gp[keys[i]][1]],
                            [i \in DOMAIN keys |-> quote_str(gp[keys[i]][2])],
                            [i \in DOMAIN keys |->
                                IF keys[i] \in DOMAIN alternative_params
                                THEN Quoted(alternative_params[keys[i]])
                                ELSE <<>>]>>
            IN  rst_title_and_table(gtitle, ParamsTableTitles, values) \o <<Line(<<>>)>>
    IN  <<Line(title), Line(Underline("=", title)), Line(<<>>)>>
        \o Flatten([g \in DOMAIN grouped_params |-> grp(g)])

MaxOf(S) == CHOOSE x \in S : \A y \in S : x >= y

avail_easyconfig_params_txt(title, grouped_params, alternative_params) ==
    LET grp(g) ==
            LET grpname == grouped_params[g].key
                gp == grouped_params[g].params
                nw == MaxOf({Len(k) : k \in DOMAIN gp})
                keys == SortStrSet(DOMAIN gp)
                line(name) ==
                    name \o [i \in 1..(nw - Len(name)) |-> " "] \o <<"  ", " ">>
                    \o gp[name][1] \o <<" ", "[default: ">> \o quote_str(gp[name][2]) \o <<"]">>
                    \o (IF name \in DOMAIN alternative_params /\ alternative_params[name] # <<>>
                        THEN <<" {alternative: ">> \o alternative_params[name] \o <<"}">>
                        ELSE <<>>)
            IN  <<Line(upper(grpname)), Line(Underline("-", upper(grpname)))>>
                \o [i \in DOMAIN keys |-> Line(line(keys[i]))] \o <<Line(<<>>)>>
    IN  <<Line(title \o <<":">>), Line(<<>>)>>
        \o Flatten([g \in DOMAIN grouped_params |-> grp(g)])

-----------------------------------------------------------------------------
(* The enumeration catalogs: configuration-file constants, easyconfig        *)
(* constants, licenses                                                      *)

INDENT_4SPACES == "    "
INDENT_2SPACES == "  "

\* sorted keys of a dict that is modelled as a function
SortedKeys(d) == SortStrSet(DOMAIN d)

CfgfileTitle == <<"Constants available (only) in configuration files">>
CfgfileTableTitles == <<<<"Constant name">>, <<"Constant help">>, <<"Constant value">>>>
DEFAULT == <<"D","E","F","A","U","L","T">>

\* go_cfg_constants: an ordered dict section -> {name: (value, help)}, as a
\* sequence of [key, entries]; section != go_cfg_constants['DEFAULT'] compares
\* the section name with the dict of the DEFAULT section, and these never agree
section_differs(section, default_section) == TRUE

CfgfileTable(consts) ==
    LET sorted_names == SortedKeys(consts)
    IN  <<[i \in DOMAIN sorted_names |-> Quoted(sorted_names[i])],
          [i \in DOMAIN sorted_names |-> consts[sorted_names[i]][2]],
          [i \in DOMAIN sorted_names |-> Quoted(consts[sorted_names[i]][1])]>>

avail_cfgfile_constants_txt(go_cfg_constants) ==
    LET sect(i) ==
            LET section == go_cfg_constants[i].key
                consts == go_cfg_constants[i].entries
                names == SortedKeys(consts)
            IN  <<Line(<<>>)>>
                \o (IF section_differs(section, DictGet(go_cfg_constants, DEFAULT))
                    THEN <<Line(<<"only in '">> \o section \o <<"' section:">>)>> ELSE <<>>)
                \o [j \in DOMAIN names |->
                      Line(<<"* ">> \o names[j] \o <<": ">> \o consts[names[j]][2]
                           \o <<" [value: ">> \o consts[names[j]][1] \o <<"]">>)]
    IN  <<Line(CfgfileTitle \o <<":">>), Line(<<"syntax: %(CONSTANT_NAME)s">>)>>
        \o Flatten([i \in DOMAIN go_cfg_constants |-> sect(i)])

avail_cfgfile_constants_rst(go_cfg_constants) ==
    LET sect(i) ==
            LET section == go_cfg_constants[i].key
                section_title == <<"Only in '">> \o section \o <<"' section:">>
            IN  <<Line(<<>>)>>
                \o (IF section_differs(section, DictGet(go_cfg_constants, DEFAULT))
                    THEN <<Line(section_title), Line(Underline("-", section_title)), Line(<<>>)>>
                    ELSE <<>>)
                \o mk_rst_table(CfgfileTableTitles, CfgfileTable(go_cfg_constants[i].entries))
    IN  <<Line(CfgfileTitle), Line(Underline("-", CfgfileTitle))>>
        \o Flatten([i \in DOMAIN go_cfg_constants |-> sect(i)])

avail_cfgfile_constants_md(go_cfg_constants) ==
    LET sect(i) ==
            LET section == go_cfg_constants[i].key
            IN  (IF section_differs(section, DictGet(go_cfg_constants, DEFAULT))
                 THEN <<Line(<<"## Only in '">> \o section \o <<"' section:">>), Line(<<>>)>>
                 ELSE <<>>)
                \o mk_md_table(CfgfileTableTitles, CfgfileTable(go_cfg_constants[i].entries))
    IN  <<Line(<<"# ">> \o CfgfileTitle), Line(<<>>)>>
        \o Flatten([i \in DOMAIN go_cfg_constants |-> sect(i)])

ConstantsTitle == <<"Constants that can be used in easyconfigs">>
ConstantsTableTitles == <<<<"Constant name">>, <<"Constant value">>, <<"Description">>>>

\* EASYCONFIG_CONSTANTS: name -> (value, description)
avail_easyconfig_constants_txt(constants) ==
    LET names == SortedKeys(constants)
    IN  <<Line(ConstantsTitle)>>
        \o [i \in DOMAIN names |->
              Line(<<INDENT_4SPACES>> \o names[i] \o <<": ">> \o constants[names[i]][1]
                   \o <<" (">> \o constants[names[i]][2] \o <<")">>)]

ConstantsTable(constants) ==
    LET sorted_keys == SortedKeys(constants)
    IN  <<[i \in DOMAIN sorted_keys |-> Quoted(sorted_keys[i])],
          [i \in DOMAIN sorted_keys |-> Quoted(constants[sorted_keys[i]][1])],
          [i \in DOMAIN sorted_keys |-> constants[sorted_keys[i]][2]]>>

avail_easyconfig_constants_rst(constants) ==
    rst_title_and_table(ConstantsTitle, ConstantsTableTitles, ConstantsTable(constants))

avail_easyconfig_constants_md(constants) ==
    md_title_and_table(ConstantsTitle, ConstantsTableTitles, ConstantsTable(constants), 1)

LicensesTitle == <<"License constants that can be used in easyconfigs">>
LicensesTableTitles == <<<<"License name">>, <<"License description">>, <<"Version">>>>

\* EASYCONFIG_LICENSES_DICT: key -> [name, description, version], version being
\* a sequence of numbers or, for None, NoVersion
NoVersion == <<-1>>
VersionDots(version) == join(<<".">>, [i \in DOMAIN version |-> IntToStr(version[i])])

\* '%s' % version: None is printed as None, and a tuple is taken as the
\* arguments of the format, so that a version of one number prints as that
\* number (the registry of the model holds no longer version)
VersionRepr(version) ==
    IF version = NoVersion THEN <<"None">> ELSE IntToStr(version[1])

avail_easyconfig_licenses_txt(licenses) ==
    LET keys == SortedKeys(licenses)
        line(k) ==
            LET lic_inst == licenses[k]
                strver == IF lic_inst.version # NoVersion /\ lic_inst.version # <<>>
                          THEN <<" (version: ">> \o VersionDots(lic_inst.version) \o <<")">>
                          ELSE <<>>
            IN  Line(<<INDENT_4SPACES>> \o lic_inst.name \o <<": ">> \o lic_inst.description
                     \o strver)
    IN  <<Line(LicensesTitle)>> \o [i \in DOMAIN keys |-> line(keys[i])]

avail_easyconfig_licenses_rst(licenses) ==
    LET lics == SortedKeys(licenses)
    IN  rst_title_and_table(LicensesTitle, LicensesTableTitles,
            <<[i \in DOMAIN lics |-> Quoted(licenses[lics[i]].name)],
              [i \in DOMAIN lics |-> licenses[lics[i]].description],
              [i \in DOMAIN lics |-> Quoted(VersionRepr(licenses[lics[i]].version))]>>)

avail_easyconfig_licenses_md(licenses) ==
    LET lics == SortedKeys(licenses)
    IN  md_title_and_table(LicensesTitle, LicensesTableTitles,
            <<[i \in DOMAIN lics |-> Quoted(licenses[lics[i]].name)],
              [i \in DOMAIN lics |-> licenses[lics[i]].description],
              [i \in DOMAIN lics |-> Quoted(VersionRepr(licenses[lics[i]].version))]>>, 1)

-----------------------------------------------------------------------------
(* The template catalog.  The registries of easyconfig.templates are ordered: *)
(* a dict is a sequence of <<name, value>>, a list a sequence of names.      *)

TemplTitleEasyconfig == <<"Template names/values derived from easyconfig instance">>
TemplTitleVersions == <<"Template names/values for (short) software versions">>
TemplTitleConfig == <<"Template names/values as set in easyconfig">>
\* the title of the section before
TemplTitleRepeated == TemplTitleConfig
TemplTitleLower == <<"Lowercase values of template values">>
TemplTitleRunStep == <<"Template values set outside EasyBlock runstep">>
TemplTitleDynamic == <<"Template values which are defined dynamically">>
TemplTitleConstants == <<"Template constants that can be used in easyconfigs">>

\* '%%(%s)s' % name
Templ(name) == <<"%(">> \o name \o <<")s">>

\* TEMPLATE_NAMES_LOWER_TEMPLATE % {'name': name}
TEMPLATE_NAMES_LOWER_TEMPLATE(name) == name \o <<"lower">>

avail_easyconfig_templates_txt(t) ==
    LET ind == <<INDENT_4SPACES>>
        vers(i) ==
            LET name == t.TEMPLATE_SOFTWARE_VERSIONS[i][1]
                prefix == t.TEMPLATE_SOFTWARE_VERSIONS[i][2]
            IN  <<Line(ind \o Templ(prefix \o <<"majver">>) \o <<": major version for ">> \o name),
                  Line(ind \o Templ(prefix \o <<"shortver">>) \o <<": short version for ">>
                       \o name \o <<" (<major>.<minor>)">>),
                  Line(ind \o Templ(prefix \o <<"ver">>) \o <<": full version for ">> \o name)>>
        named(d) == [i \in DOMAIN d |-> Line(ind \o Templ(d[i][1]) \o <<": ">> \o d[i][2])]
    IN  <<Line(TemplTitleEasyconfig)>> \o named(t.TEMPLATE_NAMES_EASYCONFIG) \o <<Line(<<>>)>>
        \o <<Line(TemplTitleVersions)>>
        \o Flatten([i \in DOMAIN t.TEMPLATE_SOFTWARE_VERSIONS |-> vers(i)]) \o <<Line(<<>>)>>
        \o <<Line(TemplTitleConfig)>>
        \o [i \in DOMAIN t.TEMPLATE_NAMES_CONFIG |-> Line(ind \o Templ(t.TEMPLATE_NAMES_CONFIG[i]))]
        \o <<Line(<<>>)>>
        \o <<Line(TemplTitleLower)>>
        \o [i \in DOMAIN t.TEMPLATE_NAMES_LOWER |->
              Line(ind \o Templ(TEMPLATE_NAMES_LOWER_TEMPLATE(t.TEMPLATE_NAMES_LOWER[i]))
                   \o <<": lower case of value of ">> \o t.TEMPLATE_NAMES_LOWER[i])]
        \o <<Line(<<>>)>>
        \o <<Line(TemplTitleRunStep)>> \o named(t.TEMPLATE_NAMES_EASYBLOCK_RUN_STEP)
        \o <<Line(<<>>)>>
        \o <<Line(TemplTitleDynamic)>> \o named(t.TEMPLATE_NAMES_DYNAMIC) \o <<Line(<<>>)>>
        \o <<Line(TemplTitleConstants)>>
        \o [i \in DOMAIN t.TEMPLATE_CONSTANTS |->
              Line(ind \o t.TEMPLATE_CONSTANTS[i][1] \o <<": ">> \o t.TEMPLATE_CONSTANTS[i][2][2]
                   \o <<" (">> \o t.TEMPLATE_CONSTANTS[i][2][1] \o <<")">>)]

TemplTableTitles == <<<<"Template name">>, <<"Template value">>>>
TemplConstTitles == <<<<"Constant">>, <<"Template description">>, <<"Template value">>>>

\* the two columns of a table of named templates
NamedColumns(d) ==
    <<[i \in DOMAIN d |-> Quoted(Templ(d[i][1]))], [i \in DOMAIN d |-> d[i][2]]>>

\* the columns with the short version before the major version
VersionColumnsShortFirst(versions, short) ==
    LET n == Len(versions)
        name(k) == versions[(k + 2) \div 3][1]
        prefix(k) == versions[(k + 2) \div 3][2]
        which(k) == (k - 1) % 3
    IN  <<[k \in 1..(3 * n) |->
              Quoted(Templ(prefix(k) \o (CASE which(k) = 0 -> <<"shortver">>
                                           [] which(k) = 1 -> <<"majver">>
                                           [] which(k) = 2 -> <<"ver">>)))],
          [k \in 1..(3 * n) |->
              CASE which(k) = 0 -> <<"short version for ">> \o name(k) \o short
                [] which(k) = 1 -> <<"major version for ">> \o name(k)
                [] which(k) = 2 -> <<"full version for ">> \o name(k)]>>

\* ver and ver_desc after the loop over TEMPLATE_SOFTWARE_VERSIONS; short is the
\* text of the format for the short version
VersionColumns(versions, short) ==
    LET n == Len(versions)
        name(k) == versions[(k + 2) \div 3][1]
        prefix(k) == versions[(k + 2) \div 3][2]
        which(k) == (k - 1) % 3
    IN  <<[k \in 1..(3 * n) |->
              Quoted(Templ(prefix(k) \o (CASE which(k) = 0 -> <<"majver">>
                                           [] which(k) = 1 -> <<"shortver">>
                                           [] which(k) = 2 -> <<"ver">>)))],
          [k \in 1..(3 * n) |->
              CASE which(k) = 0 -> <<"major version for ">> \o name(k)
                [] which(k) = 1 -> <<"short version for ">> \o name(k) \o short
                [] which(k) = 2 -> <<"full version for ">> \o name(k)]>>

LowerColumns(names) ==
    <<[i \in DOMAIN names |-> Quoted(Templ(TEMPLATE_NAMES_LOWER_TEMPLATE(names[i])))],
      [i \in DOMAIN names |-> <<"lower case of value of ">> \o names[i]]>>

ConstColumns(consts) ==
    <<[i \in DOMAIN consts |-> Quoted(consts[i][1])],
      [i \in DOMAIN consts |-> consts[i][2][2]],
      [i \in DOMAIN consts |-> Quoted(consts[i][2][1])]>>

avail_easyconfig_templates_rst(t) ==
    rst_title_and_table(TemplTitleEasyconfig, TemplTableTitles,
                        NamedColumns(t.TEMPLATE_NAMES_EASYCONFIG))
    \o <<Line(<<>>)>>
    \o rst_title_and_table(TemplTitleVersions, TemplTableTitles,
                           VersionColumns(t.TEMPLATE_SOFTWARE_VERSIONS, <<" (<major>.<minor>)">>))
    \o <<Line(<<>>)>>
    \o <<Line(TemplTitleConfig), Line(Underline("-", TemplTitleConfig)), Line(<<>>)>>
    \o [i \in DOMAIN t.TEMPLATE_NAMES_CONFIG |->
          Line(<<"* ">> \o Quoted(Templ(t.TEMPLATE_NAMES_CONFIG[i])))]
    \o <<Line(<<>>)>>
    \o rst_title_and_table(TemplTitleLower, TemplTableTitles, LowerColumns(t.TEMPLATE_NAMES_LOWER))
    \o rst_title_and_table(TemplTitleRunStep, TemplTableTitles,
                           NamedColumns(t.TEMPLATE_NAMES_EASYBLOCK_RUN_STEP))
    \o rst_title_and_table(TemplTitleDynamic, TemplTableTitles,
                           NamedColumns(t.TEMPLATE_NAMES_DYNAMIC))
    \o rst_title_and_table(TemplTitleConstants, TemplConstTitles,
                           ConstColumns(t.TEMPLATE_CONSTANTS))

avail_easyconfig_templates_md(t) ==
    md_title_and_table(TemplTitleEasyconfig, TemplTableTitles,
                       NamedColumns(t.TEMPLATE_NAMES_EASYCONFIG), 2)
    \o <<Line(<<>>)>>
    \o md_title_and_table(TemplTitleVersions, TemplTableTitles,
            VersionColumns(t.TEMPLATE_SOFTWARE_VERSIONS,
                              <<" (", BQ2, "<major>.<minor>", BQ2, ")">>), 2)
    \o <<Line(<<>>)>>
    \o <<Line(<<"## ">> \o TemplTitleConfig), Line(<<>>)>>
    \o [i \in DOMAIN t.TEMPLATE_NAMES_CONFIG |->
          Line(<<"* ">> \o Quoted(Templ(t.TEMPLATE_NAMES_CONFIG[i])))]
    \o <<Line(<<>>)>>
    \o md_title_and_table(TemplTitleLower, TemplTableTitles,
                          LowerColumns(t.TEMPLATE_NAMES_LOWER), 2)
    \o <<Line(<<>>)>>
    \o md_title_and_table(TemplTitleRunStep, TemplTableTitles,
                          NamedColumns(t.TEMPLATE_NAMES_EASYBLOCK_RUN_STEP), 2)
    \o <<Line(<<>>)>>
    \o md_title_and_table(TemplTitleDynamic, TemplTableTitles,
                          NamedColumns(t.TEMPLATE_NAMES_DYNAMIC), 2)
    \o <<Line(<<>>)>>
    \o md_title_and_table(TemplTitleConstants, TemplConstTitles,
                          ConstColumns(t.TEMPLATE_CONSTANTS), 2)

-----------------------------------------------------------------------------
(* The plugin hierarchy: list_easyblocks, gen_list_easyblocks and            *)
(* avail_classes_tree.  The type registry is a sequence of classes in the    *)
(* order of their definition, each [name, module, bases].                    *)

EasyBlock == <<"E","a","s","y","B","l","o","c","k">>
Extension == <<"E","x","t","e","n","s","i","o","n">>

\* the names of the classes whose first base is cls
subclasses_by_first_base(registry, cls) ==
    LET F[i \in 0..Len(registry)] ==
            IF i = 0 THEN <<>>
            ELSE IF registry[i].bases # <<>> /\ registry[i].bases[1] = cls
                 THEN Append(F[i - 1], registry[i].name) ELSE F[i - 1]
    IN  F[Len(registry)]

\* cls.__subclasses__(): the names of the classes that list cls among their
\* bases, in the order of their definition
subclasses(registry, cls) ==
    LET F[i \in 0..Len(registry)] ==
            IF i = 0 THEN <<>>
            ELSE IF cls \in Range(registry[i].bases)
                 THEN Append(F[i - 1], registry[i].name) ELSE F[i - 1]
    IN  F[Len(registry)]

ClassOf(registry, name) == registry[CHOOSE i \in DOMAIN registry : registry[i].name = name]

\* the names add_class(classes, cls) enters into classes
RECURSIVE added_classes(_, _)
added_classes(registry, cls) ==
    {cls} \cup UNION {added_classes(registry, c) : c \in Range(subclasses(registry, cls))}

\* classes after add_class was called for each root
add_class(registry, roots) ==
    LET names == UNION {added_classes(registry, roots[i]) : i \in DOMAIN roots}
    IN  [n \in names |->
            [module |-> ClassOf(registry, n).module,
             children |-> SortCI(subclasses(registry, n))]]

FormatStrings(output_format) ==
    CASE output_format = "md" ->
            [det_root_templ |-> <<"- **", "** (", ")">>, root_templ |-> <<"- **", "**">>,
             zero_indent |-> <<INDENT_2SPACES>>, indent |-> <<INDENT_2SPACES>>,
             newline |-> None, sep |-> <<"- ">>]
      [] output_format = "rst" ->
            [det_root_templ |-> <<"* **", "** (", ")">>, root_templ |-> <<"* **", "**">>,
             zero_indent |-> <<INDENT_2SPACES>>, indent |-> <<INDENT_2SPACES>>,
             newline |-> <<>>, sep |-> <<"* ">>]
      [] output_format = "txt" ->
            [det_root_templ |-> <<"", " (", ")">>, root_templ |-> <<"", "">>,
             zero_indent |-> <<>>, indent |-> <<"|   ">>,
             newline |-> None, sep |-> <<"|-- ">>]

\* the chunks of a template around its values, empty ones left out
Lit(chunk) == IF chunk = "" THEN <<>> ELSE <<chunk>>

\* indent * depth
Repeat(str, n) == Flatten([i \in 1..n |-> str])

\* a location that is never shown
class_location_dropped(locations, mod, at) == <<>>

\* loc = ''; if mod in locations: loc = '@ %s' % locations[mod]['loc'], at
\* being '@ ' for a class below a root and ' @ ' for a root
class_location(locations, mod, at) ==
    IF mod \in DOMAIN locations THEN <<at>> \o locations[mod] ELSE <<>>

\* the lines of the classes alone, without the lines of their children
avail_classes_tree_flat(classes, class_names, locations, detailed, format_strings, depth) ==
    [i \in DOMAIN class_names |->
        Line(format_strings.zero_indent \o Repeat(format_strings.indent, depth)
             \o format_strings.sep \o class_names[i]
             \o (IF detailed
                 THEN <<" (">> \o classes[class_names[i]].module \o <<" ">>
                      \o class_location(locations, classes[class_names[i]].module, "@ ")
                      \o <<")">>
                 ELSE <<>>))]

RECURSIVE avail_classes_tree(_, _, _, _, _, _)
avail_classes_tree(classes, class_names, locations, detailed, format_strings, depth) ==
    LET one(class_name) ==
            LET class_info == classes[class_name]
                mod == class_info.module
                loc == class_location(locations, mod, "@ ")
                head == format_strings.zero_indent \o Repeat(format_strings.indent, depth)
                        \o format_strings.sep
                nl == IF format_strings.newline # None
                      THEN <<Line(format_strings.newline)>> ELSE <<>>
            IN  <<Line(IF detailed
                       THEN head \o class_name \o <<" (">> \o mod \o <<" ">> \o loc \o <<")">>
                       ELSE head \o class_name)>>
                \o (IF Len(class_info.children) > 0
                    THEN nl \o avail_classes_tree(classes, class_info.children, locations,
                                                  detailed, format_strings, depth + 1) \o nl
                    ELSE <<>>)
    IN  Flatten([i \in DOMAIN class_names |-> one(class_names[i])])

Roots == <<EasyBlock, Extension>>

gen_list_easyblocks(registry, locations, detailed, format_strings) ==
    LET classes == add_class(registry, Roots)
        nl == IF format_strings.newline # None
              THEN <<Line(format_strings.newline)>> ELSE <<>>
        one(root) ==
            LET mod == classes[root].module
                loc == class_location(locations, mod, " @ ")
                templ == IF detailed THEN format_strings.det_root_templ
                         ELSE format_strings.root_templ
            IN  <<Line(IF detailed
                       THEN Lit(templ[1]) \o root \o Lit(templ[2]) \o mod \o loc \o Lit(templ[3])
                       ELSE Lit(templ[1]) \o root \o Lit(templ[2]))>>
                \o nl
                \o avail_classes_tree(classes, classes[root].children, locations, detailed,
                                      format_strings, 0)
                \o nl
    IN  Flatten([i \in DOMAIN Roots |-> one(Roots[i])])

DETAILED == "detailed"
SIMPLE == "simple"

\* list_easyblocks: json is refused first; format_strings[output_format] is a
\* dict lookup, which raises KeyError for any other unknown format
list_easyblocks(registry, locations, mode, output_format) ==
    IF output_format = "json"
    THEN Raise("NotImplementedError",
               <<"JSON", " output format not supported for ", "list_easyblocks">>)
    ELSE IF output_format \notin {"md", "rst", "txt"}
    THEN Raise("KeyError", <<output_format>>)
    ELSE Return(gen_list_easyblocks(registry, locations, mode = DETAILED,
                                    FormatStrings(output_format)))

-----------------------------------------------------------------------------
(* The toolchain catalogs.  The toolchain registry maps a toolchain NAME to  *)
(* [definition, opts]: definition() is a dict from a component kind to its   *)
(* modules; opts holds, for each of the four option attributes in the order  *)
(* the code reads them, a dict option -> (default, description) or None.     *)

ToolchainsTitle == <<"List of known toolchains">>

cray == <<"c","r","a","y">>
none_txt == <<"*(none)*">>

\* tc.get(col, [])
TcGet(tc, col) == IF col \in DOMAIN tc THEN tc[col] ELSE <<>>

\* s or none_txt
OrNone(str) == IF str = <<>> THEN none_txt ELSE str

\* the cell of one toolchain in one column other than NAME
ToolchainCell(tc_name, tc, col_name) ==
    IF Contains(lower(tc_name), cray)
    THEN CASE col_name = "COMPILER" -> join(<<", ">>, tc["COMPILER"])
           [] col_name = "MPI" -> <<"cray-mpich">>
           [] col_name = "LINALG" -> <<"cray-libsci">>
           [] OTHER -> none_txt
    ELSE IF col_name = "LINALG"
    THEN OrNone(join(<<", ">>,
                     nub(TcGet(tc, "BLAS") \o TcGet(tc, "LAPACK") \o TcGet(tc, "SCALAPACK"))))
    ELSE OrNone(join(<<", ">>, TcGet(tc, col_name)))

ToolchainColumns == <<"NAME", "COMPILER", "MPI", "LINALG", "FFT">>

\* col_names.get(col, col)
ToolchainTableTitles == <<<<"Name">>, <<"Compiler(s)">>, <<"MPI">>, <<"Linear algebra">>, <<"FFT">>>>

ToolchainTable(tcs) ==
    LET sorted_tc_names == SortCI(SortStrSet(DOMAIN tcs))
    IN  [c \in DOMAIN ToolchainColumns |->
            IF ToolchainColumns[c] = "NAME"
            THEN [i \in DOMAIN sorted_tc_names |-> <<"**">> \o sorted_tc_names[i] \o <<"**">>]
            ELSE [i \in DOMAIN sorted_tc_names |->
                    ToolchainCell(sorted_tc_names[i], tcs[sorted_tc_names[i]],
                                  ToolchainColumns[c])]]

list_toolchains_md(tcs) ==
    md_title_and_table(ToolchainsTitle, ToolchainTableTitles, ToolchainTable(tcs), 1)

list_toolchains_rst(tcs) ==
    rst_title_and_table(ToolchainsTitle, ToolchainTableTitles, ToolchainTable(tcs))

list_toolchains_txt(tcs) ==
    LET names == SortStrSet(DOMAIN tcs)
        \* nub(sorted([e for es in tcs[name].values() for e in es]))
        tc_elems(name) == SortStrSet(UNION {Range(tcs[name][k]) : k \in DOMAIN tcs[name]})
    IN  <<Line(ToolchainsTitle \o <<" (toolchain name: module[, module, ...]):">>)>>
        \o [i \in DOMAIN names |->
              Line(<<"\t">> \o names[i] \o <<": ">> \o join(<<", ">>, tc_elems(names[i])))]

\* tcs after the loop of list_toolchains: every toolchain, instantiated with
\* version '1.2.3', replaced by its definition()
toolchain_definitions(toolchain_registry) ==
    [n \in DOMAIN toolchain_registry |-> toolchain_registry[n].definition]

ToolchainOptsTitle(name) == <<"Available options for ">> \o name \o <<" toolchain">>
ToolchainOptsTableTitles == <<<<"option">>, <<"description">>, <<"default">>>>

\* getattr(tc, cst, None): the attribute, or None
Attr(value) == [is_none |-> FALSE, value |-> value]
NoAttr == [is_none |-> TRUE, value |-> EmptyDict]

\* tc_dict after the loop over the four option attributes
RECURSIVE toolchain_options(_)
toolchain_options(opts) ==
    IF opts = <<>> THEN EmptyDict
    ELSE LET before == toolchain_options(SubSeq(opts, 1, Len(opts) - 1))
             last == opts[Len(opts)]
         IN  IF ~last.is_none THEN dict_update(before, last.value) ELSE before

ToolchainOptsTable(tc_dict) ==
    LET tc_items == SortedKeys(tc_dict)
    IN  <<[i \in DOMAIN tc_items |-> Quoted(tc_items[i])],
          [i \in DOMAIN tc_items |-> tc_dict[tc_items[i]][2]],
          [i \in DOMAIN tc_items |-> Quoted(tc_dict[tc_items[i]][1])]>>

avail_toolchain_opts_md(name, tc_dict) ==
    md_title_and_table(ToolchainOptsTitle(name), ToolchainOptsTableTitles,
                       ToolchainOptsTable(tc_dict), 2)

avail_toolchain_opts_rst(name, tc_dict) ==
    rst_title_and_table(ToolchainOptsTitle(name), ToolchainOptsTableTitles,
                        ToolchainOptsTable(tc_dict))

avail_toolchain_opts_txt(name, tc_dict) ==
    LET names == SortedKeys(tc_dict)
    IN  <<Line(ToolchainOptsTitle(name) \o <<":">>)>>
        \o [i \in DOMAIN names |->
              Line(<<INDENT_4SPACES>> \o names[i] \o <<": ">> \o tc_dict[names[i]][2]
                   \o <<" (default: ">> \o tc_dict[names[i]][1] \o <<")">>)]

-----------------------------------------------------------------------------
(* The format dispatcher *)

FORMAT_JSON == "json"
FORMAT_MD == "md"
FORMAT_RST == "rst"
FORMAT_TXT == "txt"

\* the reports that go through generate_doc
DispatchedReports ==
    {"avail_cfgfile_constants", "avail_easyconfig_constants", "avail_easyconfig_licenses",
     "avail_easyconfig_params", "avail_easyconfig_templates", "list_software",
     "list_toolchains", "avail_toolchain_opts"}

\* the functions <report>_<format> that the module defines: globals()
Globals == DispatchedReports \X {FORMAT_JSON, FORMAT_MD, FORMAT_RST, FORMAT_TXT}

\* the message of the NotImplementedError that each json stub raises
StubMessage(report) ==
    CASE report \in {"avail_cfgfile_constants", "avail_easyconfig_constants",
                     "avail_easyconfig_licenses", "avail_easyconfig_params"} ->
            <<"JSON", " output format not supported for ", report, "_", "json">>
      [] report = "avail_easyconfig_templates" ->
            <<"JSON", " output format not supported for ", report>>
      [] report = "list_toolchains" ->
            <<"JSON", " output not implemented yet for ", "--list-toolchains">>
      [] report = "avail_toolchain_opts" ->
            <<"JSON", " output not implemented yet for ", "--avail-toolchain-opts">>

\* func = globals()[name]; return func(*params), name being report_format
generate_doc(report, output_format, params) ==
    IF <<report, output_format>> \notin Globals
    THEN Raise("KeyError", <<report, "_", output_format>>)
    ELSE IF output_format = FORMAT_JSON /\ report # "list_software"
    THEN Raise("NotImplementedError", StubMessage(report))
    ELSE Return(
        CASE report = "avail_cfgfile_constants" ->
                (CASE output_format = FORMAT_TXT -> avail_cfgfile_constants_txt(params[1])
                   [] output_format = FORMAT_RST -> avail_cfgfile_constants_rst(params[1])
                   [] output_format = FORMAT_MD -> avail_cfgfile_constants_md(params[1]))
          [] report = "avail_easyconfig_constants" ->
                (CASE output_format = FORMAT_TXT -> avail_easyconfig_constants_txt(params[1])
                   [] output_format = FORMAT_RST -> avail_easyconfig_constants_rst(params[1])
                   [] output_format = FORMAT_MD -> avail_easyconfig_constants_md(params[1]))
          [] report = "avail_easyconfig_licenses" ->
                (CASE output_format = FORMAT_TXT -> avail_easyconfig_licenses_txt(params[1])
                   [] output_format = FORMAT_RST -> avail_easyconfig_licenses_rst(params[1])
                   [] output_format = FORMAT_MD -> avail_easyconfig_licenses_md(params[1]))
          [] report = "avail_easyconfig_params" ->
                (CASE output_format = FORMAT_TXT ->
                        avail_easyconfig_params_txt(params[1], params[2], params[3])
                   [] output_format = FORMAT_RST ->
                        avail_easyconfig_params_rst(params[1], params[2], params[3])
                   [] output_format = FORMAT_MD ->
                        avail_easyconfig_params_md(params[1], params[2], params[3]))
          [] report = "avail_easyconfig_templates" ->
                (CASE output_format = FORMAT_TXT -> avail_easyconfig_templates_txt(params[1])
                   [] output_format = FORMAT_RST -> avail_easyconfig_templates_rst(params[1])
                   [] output_format = FORMAT_MD -> avail_easyconfig_templates_md(params[1]))
          [] report = "list_software" ->
                (CASE output_format = FORMAT_TXT -> list_software_txt(params[1], params[2])
                   [] output_format = FORMAT_RST -> list_software_rst(params[1], params[2])
                   [] output_format = FORMAT_MD -> list_software_md(params[1], params[2])
                   [] output_format = FORMAT_JSON -> list_software_json(params[1], params[2]))
          [] report = "list_toolchains" ->
                (CASE output_format = FORMAT_TXT -> list_toolchains_txt(params[1])
                   [] output_format = FORMAT_RST -> list_toolchains_rst(params[1])
                   [] output_format = FORMAT_MD -> list_toolchains_md(params[1]))
          [] report = "avail_toolchain_opts" ->
                (CASE output_format = FORMAT_TXT -> avail_toolchain_opts_txt(params[1], params[2])
                   [] output_format = FORMAT_RST -> avail_toolchain_opts_rst(params[1], params[2])
                   [] output_format = FORMAT_MD -> avail_toolchain_opts_md(params[1], params[2])))

\* what an entry point handed to generate_doc
Handed(report, output_format, params) ==
    [name |-> <<report, output_format>>, params |-> params]
NotHanded == [name |-> <<"", "">>, params |-> <<>>]

-----------------------------------------------------------------------------
(* The entry point of the parameter catalog *)

\* get_easyblock_class(easyblock, error_on_missing_easyblock=False) (outside
\* src/): the plugin of that name, or None
NoClass == [name |-> None, extra_options |-> EmptyDict]
get_easyblock_class(easyblocks, easyblock) ==
    IF easyblock \in DOMAIN easyblocks THEN easyblocks[easyblock] ELSE NoClass

\* extra_params = app.extra_options() if app is not None, else {}
extra_options(app) == IF app # NoClass THEN app.extra_options ELSE EmptyDict

\* the title with the qualifier, whatever extra_params holds
params_title_qualified(extra_params, app) ==
    ParamsTitle \o <<" (* indicates specific to the ">> \o app.name \o <<" easyblock)">>

\* the title: the qualifier is added if extra_params is not empty
params_title(extra_params, app) ==
    IF DOMAIN extra_params # {}
    THEN ParamsTitle \o <<" (* indicates specific to the ">> \o app.name \o <<" easyblock)">>
    ELSE ParamsTitle

\* the heap after params = copy.deepcopy(DEFAULT_CONFIG); params.update(extra_params):
\* a function from references to dicts
heap_after_update(default_config, ref, extra_params) ==
    [[r \in {"DEFAULT_CONFIG", ref} |-> default_config]
        EXCEPT ![ref] = dict_update(@, extra_params)]

\* what avail_easyconfig_params hands to generate_doc, and the module's
\* DEFAULT_CONFIG after the call
params_handed(heap, ref, extra_params, app, alternatives) ==
    [DEFAULT_CONFIG |-> heap["DEFAULT_CONFIG"],
     params |-> <<params_title(extra_params, app),
                  group_params(heap[ref], extra_params, sorted_categories),
                  reverse_mapping(alternatives)>>]

params_of_class(default_config, app, alternatives) ==
    params_handed(heap_after_update(default_config, copy_deepcopy("DEFAULT_CONFIG"),
                                    extra_options(app)),
                  copy_deepcopy("DEFAULT_CONFIG"), extra_options(app), app, alternatives)

\* default_config is the module's DEFAULT_CONFIG before the call
params_request(default_config, easyblocks, alternatives, easyblock) ==
    params_of_class(default_config, get_easyblock_class(easyblocks, easyblock), alternatives)

-----------------------------------------------------------------------------
(* The other entry points *)

avail_cfgfile_constants(go_cfg_constants, output_format) ==
    generate_doc("avail_cfgfile_constants", output_format, <<go_cfg_constants>>)

avail_easyconfig_constants(constants, output_format) ==
    generate_doc("avail_easyconfig_constants", output_format, <<constants>>)

avail_easyconfig_licenses(licenses, output_format) ==
    generate_doc("avail_easyconfig_licenses", output_format, <<licenses>>)

avail_easyconfig_templates(t, output_format) ==
    generate_doc("avail_easyconfig_templates", output_format, <<t>>)

\* Lines 790-831: software after the loop over ecs and, when only_installed,
\* after the rebuild; avail_mod_names is what modules_tool().available() returned
software_request(ecs, only_installed, avail_mod_names) ==
    LET all_software == software_of(ecs, only_installed)
    IN  [all_software |-> all_software,
         software |-> IF only_installed THEN retain_installed(all_software, avail_mod_names)
                      ELSE all_software]

\* search_toolchain(name) (outside src/): the toolchain class of that name, or None
NoToolchain == [definition |-> EmptyDict, opts |-> <<>>]
search_toolchain(toolchain_registry, name) ==
    IF name \in DOMAIN toolchain_registry THEN toolchain_registry[name] ELSE NoToolchain

\* the options of whatever search_toolchain gives, without the test for None
avail_toolchain_opts_unchecked(toolchain_registry, name, output_format) ==
    generate_doc("avail_toolchain_opts", output_format,
                 <<name, toolchain_options(search_toolchain(toolchain_registry, name).opts)>>)

\* Lines 1262-1275
avail_toolchain_opts(toolchain_registry, name, output_format) ==
    LET tc_class == search_toolchain(toolchain_registry, name)
    IN  IF tc_class = NoToolchain
        THEN Raise("EasyBuildError",
                   <<"Couldn't find toolchain: '">> \o name
                   \o <<"'. To see available toolchains, use --list-toolchains">>)
        ELSE generate_doc("avail_toolchain_opts", output_format,
                          <<name, toolchain_options(tc_class.opts)>>)

list_toolchains(toolchain_registry, output_format) ==
    generate_doc("list_toolchains", output_format, <<toolchain_definitions(toolchain_registry)>>)

-----------------------------------------------------------------------------
(* The overview of the easyblocks of a package: get_easyblock_classes,       *)
(* gen_easyblocks_overview_md / _rst / _json and gen_easyblock_doc_section_md *)
(* / _rst.  A class of the overview is [name, module, bases, doc, dict,      *)
(* extra_options]: doc is its docstring, dict holds the docstring of each    *)
(* function the class itself defines.  A module is [name, members], members  *)
(* being the names of the classes that inspect.getmembers finds in it.       *)

\* a docstring as the list of its lines, or None
Doc(lines) == [is_none |-> FALSE, lines |-> lines]
NoDoc == [is_none |-> TRUE, lines |-> <<>>]

\* the docstring as one string
DocText(doc) == join(<<"\n">>, doc.lines)

\* if f.__doc__: neither None nor ''
Truthy(doc) == ~doc.is_none /\ DocText(doc) # <<>>

Whitespace == {" ", "  ", "    ", "\n"}

\* str.lstrip(), str.rstrip() and str.strip()
RECURSIVE lstrip_ws(_)
lstrip_ws(str) == IF str # <<>> /\ str[1] \in Whitespace THEN lstrip_ws(Tail(str)) ELSE str
RECURSIVE rstrip_ws(_)
rstrip_ws(str) ==
    IF str # <<>> /\ str[Len(str)] \in Whitespace
    THEN rstrip_ws(SubSeq(str, 1, Len(str) - 1)) ELSE str
strip_ws(str) == rstrip_ws(lstrip_ws(str))

\* str.startswith(prefix)
startswith(str, prefix) == Len(str) >= Len(prefix) /\ SubSeq(str, 1, Len(prefix)) = prefix

\* inspect.getmro(cls), as the set of the classes in it: the class and the
\* classes in the method resolution order of its bases
RECURSIVE getmro(_, _)
getmro(universe, name) ==
    {name} \cup UNION {getmro(universe, universe[name].bases[k]) :
                          k \in DOMAIN universe[name].bases}

\* the classes that one pass of the loop over modules adds to easyblocks
easyblocks_of_module(universe, package_name, mod) ==
    {name \in mod.members :
        /\ startswith(universe[name].module, package_name)
        /\ EasyBlock \in getmro(universe, name)}

\* the easyblocks without the test for a module that has none
get_easyblock_classes_unchecked(universe, package_name, modules) ==
    [raised |-> FALSE, exc |-> Raise("", <<>>),
     easyblocks |-> UNION {easyblocks_of_module(universe, package_name, modules[i]) :
                              i \in DOMAIN modules}]

\* get_easyblock_classes: the set of classes, or the RuntimeError raised for
\* the first module in which no easyblock was found
get_easyblock_classes(universe, package_name, modules) ==
    LET without == {i \in DOMAIN modules :
                       easyblocks_of_module(universe, package_name, modules[i]) = {}}
    IN  IF without # {}
        THEN [raised |-> TRUE,
              exc |-> Raise("RuntimeError",
                            <<"No easyblocks found in module: %s">>
                            \o modules[MinOf(without)].name),
              easyblocks |-> {}]
        ELSE [raised |-> FALSE, exc |-> Raise("", <<>>),
              easyblocks |-> UNION {easyblocks_of_module(universe, package_name, modules[i]) :
                                       i \in DOMAIN modules}]

\* what a function returns that returns a list of lines
ReturnList(lines) == [kind |-> "return", text |-> lines, msg |-> <<>>]

\* every base as a link, known or not
md_base_linked(bname, all_eb_classes) ==
    <<"[", BQ2>> \o bname \o <<BQ2, "](#">> \o lower(bname) \o <<")">>

\* Lines 1432-1437: the text for one base of the class
md_base(bname, all_eb_classes) ==
    IF bname \in all_eb_classes
    THEN <<"[", BQ2>> \o bname \o <<BQ2, "](#">> \o lower(bname) \o <<")">>
    ELSE <<BQ2>> \o bname \o <<BQ2>>

\* Line 1527
rst_base(bname, all_blocks) ==
    IF bname \in all_blocks THEN <<":ref:", BQ>> \o bname \o <<BQ>> ELSE bname

\* '(derives from ' + ', '.join(bases) + ')'
derived(bases) == Line(<<"(derives from ">> \o join(<<", ">>, bases) \o <<")">>)

ExtraTableTitles == <<<<"easyconfig parameter">>, <<"description">>, <<"default value">>>>
CommonTableTitles == <<<<"easyconfig parameter">>, <<"description">>>>

\* the table of the extra options of a class, sorted by name
extra_options_table(ex_opt) ==
    LET keys == SortedKeys(ex_opt)
    IN  <<[i \in DOMAIN keys |-> Quoted(keys[i])],
          [i \in DOMAIN keys |-> ex_opt[keys[i]][2]],
          [i \in DOMAIN keys |-> Quoted(quote_str(ex_opt[keys[i]][1]))]>>

\* the table of the common parameters of a class, with the descriptions of
\* DEFAULT_CONFIG
common_params_table(opts, default_config) ==
    <<opts, [i \in DOMAIN opts |-> default_config[opts[i]][2]]>>

\* the common parameters that DEFAULT_CONFIG lacks, for the classes in the
\* order of the sections
MissingParams(names, common_params, default_config) ==
    Flatten([i \in DOMAIN names |->
        IF names[i] \in DOMAIN common_params
        THEN SelectSeq(common_params[names[i]], LAMBDA opt : opt \notin DOMAIN default_config)
        ELSE <<>>])

\* Lines 1479-1488 and 1567-1575: custom after the loop over doc_functions, as
\* the list of [func, doc]; f starts as None, whose __doc__ is none_doc, and
\* keeps the function found for an earlier name when the class does not define
\* the current one
custom_steps(own, doc_functions, none_doc) ==
    LET F[i \in 0..Len(doc_functions)] ==
            IF i = 0 THEN [f |-> none_doc, custom |-> <<>>]
            ELSE LET f == IF doc_functions[i] \in DOMAIN own THEN own[doc_functions[i]]
                          ELSE F[i - 1].f
                 IN  [f |-> f,
                      custom |-> IF Truthy(f)
                                 THEN Append(F[i - 1].custom,
                                             [func |-> doc_functions[i], doc |-> f])
                                 ELSE F[i - 1].custom]
    IN  F[Len(doc_functions)].custom

\* '* ``' + func + '`` - ' + f.__doc__.strip() + inh
custom_bullet(step) ==
    Line(<<"* ", BQ2, step.func, BQ2, " - ">> \o strip_ws(DocText(step.doc)))

gen_easyblock_doc_section_md(eb_class, examples, common_params, doc_functions, all_eb_classes, default_config, none_doc) ==
    LET classname == eb_class.name
        custom == custom_steps(eb_class.dict, doc_functions, none_doc)
    IN  <<Line(<<"## ", BQ2>> \o classname \o <<BQ2>>), Line(<<>>)>>
        \o <<derived([k \in DOMAIN eb_class.bases |->
                        md_base(eb_class.bases[k], all_eb_classes)]),
             Line(<<>>)>>
        \o (IF ~eb_class.doc.is_none
            THEN [i \in DOMAIN eb_class.doc.lines |-> Line(lstrip_ws(eb_class.doc.lines[i]))]
                 \o <<Line(<<>>)>>
            ELSE <<>>)
        \o (IF DOMAIN eb_class.extra_options # {}
            THEN md_title_and_table(
                    <<"Extra easyconfig parameters specific to ", BQ2>> \o classname
                        \o <<BQ2, " easyblock">>,
                    ExtraTableTitles, extra_options_table(eb_class.extra_options), 3)
                 \o <<Line(<<>>)>>
            ELSE <<>>)
        \o (IF classname \in DOMAIN common_params
            THEN md_title_and_table(
                    <<"Commonly used easyconfig parameters with ", BQ2>> \o classname
                        \o <<BQ2, " easyblock">>,
                    CommonTableTitles,
                    common_params_table(common_params[classname], default_config), 3)
                 \o <<Line(<<>>)>>
            ELSE <<>>)
        \o (IF custom # <<>>
            THEN <<Line(<<"### Customised steps in ", BQ2>> \o classname
                        \o <<BQ2, " easyblock">>),
                   Line(<<>>)>>
                 \o Flatten([i \in DOMAIN custom |-> <<custom_bullet(custom[i]), Line(<<>>)>>])
                 \o <<Line(<<>>)>>
            ELSE <<>>)
        \o (IF classname \in DOMAIN examples
            THEN <<Line(<<"### Example easyconfig for ", BQ2>> \o classname
                        \o <<BQ2, " easyblock">>),
                   Line(<<>>),
                   Line(<<BQ, BQ, BQ, "python">>),
                   Line(join(<<"\n">>, examples[classname])),
                   Line(<<BQ, BQ, BQ>>),
                   Line(<<>>)>>
            ELSE <<>>)

\* title, '-' * len(title)
rst_subtitle(title) == <<Line(title), Line(Underline("-", title))>>

gen_easyblock_doc_section_rst(eb_class, examples, common_params, doc_functions, all_blocks, default_config, none_doc) ==
    LET classname == eb_class.name
        custom == custom_steps(eb_class.dict, doc_functions, none_doc)
    IN  <<Line(<<".. _">> \o classname \o <<":">>),
          Line(<<>>),
          Line(<<BQ2>> \o classname \o <<BQ2>>),
          Line(Underline("=", classname) \o <<"=", "=", "=", "=">>),
          Line(<<>>)>>
        \o <<derived([k \in DOMAIN eb_class.bases |->
                        rst_base(eb_class.bases[k], all_blocks)]),
             Line(<<>>)>>
        \o (IF ~eb_class.doc.is_none
            THEN <<Line(strip_ws(DocText(eb_class.doc))), Line(<<>>)>>
            ELSE <<>>)
        \o (IF DOMAIN eb_class.extra_options # {}
            THEN rst_title_and_table(
                    <<"Extra easyconfig parameters specific to ", BQ2>> \o classname
                        \o <<BQ2, " easyblock">>,
                    ExtraTableTitles, extra_options_table(eb_class.extra_options))
            ELSE <<>>)
        \o (IF classname \in DOMAIN common_params
            THEN rst_title_and_table(
                    <<"Commonly used easyconfig parameters with ", BQ2>> \o classname
                        \o <<BQ2, " easyblock">>,
                    CommonTableTitles,
                    common_params_table(common_params[classname], default_config))
                 \o <<Line(<<>>)>>
            ELSE <<>>)
        \o (IF custom # <<>>
            THEN rst_subtitle(<<"Customised steps in ", BQ2>> \o classname
                              \o <<BQ2, " easyblock">>)
                 \o [i \in DOMAIN custom |-> custom_bullet(custom[i])]
                 \o <<Line(<<>>)>>
            ELSE <<>>)
        \o (IF classname \in DOMAIN examples
            THEN rst_subtitle(<<"Example easyconfig for ", BQ2>> \o classname
                              \o <<BQ2, " easyblock">>)
                 \o <<Line(<<>>), Line(<<".. code::">>), Line(<<>>)>>
                 \o [i \in DOMAIN examples[classname] |->
                        Line(<<INDENT_4SPACES>> \o examples[classname][i])]
                 \o <<Line(<<>>)>>
            ELSE <<>>)

OverviewTitle == <<"Overview of generic easyblocks">>
OverviewNote ==
    <<"*(this page was generated automatically using* ", BQ2,
      "easybuild.tools.docs.gen_easyblocks_overview_rst()", BQ2, " *)*">>

\* the lines of the md overview for the classes that were found, names being
\* sorted(eb_classes, key=lambda c: c.__name__)
overview_md_lines(universe, names, eb_classes, examples, common_params, doc_functions, default_config, none_doc) ==
    <<Line(<<"# ">> \o OverviewTitle),
      Line(<<>>),
      Line(join(<<" - ">>, [i \in DOMAIN names |->
                <<"[">> \o names[i] \o <<"](#">> \o lower(names[i]) \o <<")">>])),
      Line(<<>>)>>
    \o Flatten([i \in DOMAIN names |->
          gen_easyblock_doc_section_md(universe[names[i]], examples, common_params,
                                       doc_functions, eb_classes, default_config, none_doc)])

overview_rst_lines(universe, names, eb_classes, examples, common_params, doc_functions, default_config, none_doc) ==
    <<Line(OverviewNote),
      Line(<<>>),
      Line(Underline("=", OverviewTitle)),
      Line(OverviewTitle),
      Line(Underline("=", OverviewTitle)),
      Line(<<>>),
      Line(join(<<" - ">>, [i \in DOMAIN names |-> <<":ref:", BQ>> \o names[i] \o <<BQ>>])),
      Line(<<>>)>>
    \o Flatten([i \in DOMAIN names |->
          gen_easyblock_doc_section_rst(universe[names[i]], examples, common_params,
                                        doc_functions, eb_classes, default_config, none_doc)])

\* gen_easyblocks_overview_md / _rst for the classes that get_easyblock_classes
\* gave: DEFAULT_CONFIG[opt] raises KeyError for a common parameter it lacks
overview_of(universe, found, output_format, examples, common_params, doc_functions, default_config, none_doc) ==
    IF found.raised THEN found.exc
    ELSE IF MissingParams(SortStrSet(found.easyblocks), common_params, default_config) # <<>>
    THEN Raise("KeyError",
               MissingParams(SortStrSet(found.easyblocks), common_params, default_config)[1])
    ELSE IF output_format = FORMAT_MD
    THEN ReturnList(overview_md_lines(universe, SortStrSet(found.easyblocks),
                                      found.easyblocks, examples, common_params,
                                      doc_functions, default_config, none_doc))
    ELSE ReturnList(overview_rst_lines(universe, SortStrSet(found.easyblocks),
                                       found.easyblocks, examples, common_params,
                                       doc_functions, default_config, none_doc))

\* gen_easyblocks_overview_json, _md and _rst; examples are the files <name>.eb
\* under path_to_examples
gen_easyblocks_overview(universe, package_name, modules, output_format, examples, common_params, doc_functions, default_config, none_doc) ==
    IF output_format = FORMAT_JSON
    THEN Raise("NotImplementedError",
               <<"JSON", " output not implemented yet for ", "gen_easyblocks_overview">>)
    ELSE overview_of(universe, get_easyblock_classes(universe, package_name, modules),
                     output_format, examples, common_params, doc_functions,
                     default_config, none_doc)

-----------------------------------------------------------------------------
(* The registries the reports read.  Names, which the code sorts and         *)
(* compares, are sequences of characters; other texts are single chunks.     *)

\* parameters of the base schema: name -> (default, description, category)
BaseParams ==
    (<<"n","a","m","e">> :> <<None, <<"Name of software">>, CatMandatory>>)
    @@ (<<"c","o","n","f","i","g","o","p","t","s">> :> <<<<>>, <<"Extra options passed to configure">>, CatBuild>>)
    @@ (<<"s","r","c","d","i","r">> :> <<None, <<"Source directory">>, CatBuild>>)
    @@ (<<"s","e","c","r","e","t">> :> <<None, <<"Not shown">>, CatHidden>>)

\* the dict with the keys of d that are in keys
Restrict(d, keys) == [k \in keys |-> d[k]]

\* the sequences over S of length at most n
SeqsUpTo(S, n) == UNION {[1..k -> S] : k \in 0..n}

\* the plugins get_easyblock_class knows, each with its extra_options()
Easyblocks ==
    (<<"C","o","n","f","i","g","u","r","e","M","a","k","e">> :> [name |-> <<"C","o","n","f","i","g","u","r","e","M","a","k","e">>, extra_options |-> EmptyDict])
    @@ (<<"C","M","a","k","e","M","a","k","e">> :>
            [name |-> <<"C","M","a","k","e","M","a","k","e">>,
             extra_options |->
                (<<"s","e","p","a","r","a","t","e","_","b","u","i","l","d","_","d","i","r">> :> <<<<"True">>, <<"Build in a separate directory">>, CatCustom>>)
                @@ (<<"s","r","c","d","i","r">> :> <<<<".">>, <<"Source directory of the plugin">>, CatCustom>>)])
    @@ (<<"B","i","n","a","r","y">> :>
            [name |-> <<"B","i","n","a","r","y">>,
             extra_options |->
                (<<"i","n","s","t","a","l","l","_","c","m","d">> :> <<None, <<"Install command">>, CatCustom>>)
                @@ (<<"s","t","a","g","e","d">> :> <<<<"False">>, <<"Not shown either">>, CatHidden>>)
                @@ (<<"p","r","e","f","i","x","_","o","p","t">> :> <<None, <<"Prefix option">>, CatMandatory>>)])

\* the plugin ids of the requests: the known ones and one that is not known
EasyblockIds == DOMAIN Easyblocks \cup {<<"N","o","S","u","c","h","B","l","o","c","k">>}

\* ALTERNATIVE_EASYCONFIG_PARAMETERS: alternative name -> name
ALTERNATIVE_EASYCONFIG_PARAMETERS ==
    (<<"c","o","n","f","i","g","u","r","e","_","o","p","t","s">> :> <<"c","o","n","f","i","g","o","p","t","s">>) @@ (<<"i","n","s","t","a","l","l","_","c","o","m","m","a","n","d">> :> <<"i","n","s","t","a","l","l","_","c","m","d">>)

SampleConstants ==
    (<<"A","R","C","H">> :> <<<<"x86_64">>, <<"CPU architecture of the system">>>>)
    @@ (<<"H","O","M","E">> :> <<<<"/home/user">>, <<"Home directory">>>>)

SampleLicenses ==
    (<<"G","P","L","v","3">> :> [name |-> <<"G","P","L","v","3">>, description |-> <<"The GNU General Public License">>,
                version |-> <<3>>])
    @@ (<<"M","I","T">> :> [name |-> <<"M","I","T">>, description |-> <<"The MIT license">>, version |-> NoVersion])

EmptyTemplates ==
    [TEMPLATE_NAMES_EASYCONFIG |-> <<>>, TEMPLATE_SOFTWARE_VERSIONS |-> <<>>,
     TEMPLATE_NAMES_CONFIG |-> <<>>, TEMPLATE_NAMES_LOWER |-> <<>>,
     TEMPLATE_NAMES_EASYBLOCK_RUN_STEP |-> <<>>, TEMPLATE_NAMES_DYNAMIC |-> <<>>,
     TEMPLATE_CONSTANTS |-> <<>>]

SampleTemplates ==
    [TEMPLATE_NAMES_EASYCONFIG |-> <<<<<<"t","o","o","l","c","h","a","i","n","_","n","a","m","e">>, <<"Toolchain name">>>>>>,
     TEMPLATE_SOFTWARE_VERSIONS |-> <<<<<<"P","y","t","h","o","n">>, <<"p","y">>>>>>,
     TEMPLATE_NAMES_CONFIG |-> <<<<"n","a","m","e">>, <<"v","e","r","s","i","o","n">>>>,
     TEMPLATE_NAMES_LOWER |-> <<<<"n","a","m","e">>>>,
     TEMPLATE_NAMES_EASYBLOCK_RUN_STEP |-> <<<<<<"i","n","s","t","a","l","l","d","i","r">>, <<"Installation directory">>>>>>,
     TEMPLATE_NAMES_DYNAMIC |-> <<<<<<"m","p","i","_","c","m","d","_","p","r","e","f","i","x">>, <<"Prefix command for MPI">>>>>>,
     TEMPLATE_CONSTANTS |->
        <<<<<<"S","O","U","R","C","E","_","T","A","R","_","G","Z">>, <<<<"%(name)s-%(version)s.tar.gz">>, <<"Source .tar.gz bundle">>>>>>>>]

\* software whose version is tracked, each as <<name, prefix>>
VersionRoles ==
    {<<<<"P","y","t","h","o","n">>, <<"p","y">>>>,
     <<<<"P","e","r","l">>, <<"p","e","r","l">>>>,
     <<<<"R">>, <<"r">>>>}

\* the template registries: TEMPLATE_SOFTWARE_VERSIONS holds any of the roles,
\* each at most once, in any order; the other registries are filled or empty
TemplateRegistries ==
    {[base EXCEPT !.TEMPLATE_SOFTWARE_VERSIONS = versions] :
        base \in {SampleTemplates, EmptyTemplates},
        versions \in {v \in SeqsUpTo(VersionRoles, Cardinality(VersionRoles)) :
                         \A i, j \in DOMAIN v : i # j => v[i] # v[j]}}

\* the sections of the configuration file constants; DEFAULT is always there
CfgConstants ==
    {<<[key |-> DEFAULT, entries |-> EmptyDict]>>,
     <<[key |-> DEFAULT, entries |-> (<<"H","O","M","E">> :> <<<<"/home/user">>, <<"Current home">>>>)]>>,
     <<[key |-> DEFAULT, entries |-> (<<"H","O","M","E">> :> <<<<"/home/user">>, <<"Current home">>>>)],
       [key |-> <<"o","v","e","r","r","i","d","e">>, entries |-> (<<"U","S","E","R">> :> <<<<"user">>, <<"Current user">>>>)]>>}

RootClasses ==
    <<[name |-> EasyBlock, module |-> <<"easybuild.framework.easyblock">>, bases |-> <<>>],
      [name |-> Extension, module |-> <<"easybuild.framework.extension">>, bases |-> <<>>]>>

SampleClasses ==
    RootClasses
    \o <<[name |-> <<"C","o","n","f","i","g","u","r","e","M","a","k","e">>, module |-> <<"easybuild.easyblocks.generic.configuremake">>,
          bases |-> <<EasyBlock>>],
         [name |-> <<"E","x","t","e","n","s","i","o","n","E","a","s","y","B","l","o","c","k">>,
          module |-> <<"easybuild.framework.extensioneasyblock">>,
          bases |-> <<EasyBlock, Extension>>],
         [name |-> <<"C","M","a","k","e","M","a","k","e">>, module |-> <<"easybuild.easyblocks.generic.cmakemake">>,
          bases |-> <<<<"C","o","n","f","i","g","u","r","e","M","a","k","e">>>>],
         [name |-> <<"b","i","n","a","r","y">>, module |-> <<"easybuild.easyblocks.generic.binary">>,
          bases |-> <<EasyBlock>>]>>

\* a class of the generic easyblocks package
GenericClass(name, bases) ==
    [name |-> name, module |-> <<"easybuild.easyblocks.generic.">> \o lower(name),
     bases |-> bases]

Alpha == <<"A","l","p","h","a">>
beta == <<"b","e","t","a">>
Gamma == <<"G","a","m","m","a">>

\* whether the class named anc is the class named name or one of its ancestors
\* in a registry, whose classes are in the order of their definition
RECURSIVE IsSubclass(_, _, _)
IsSubclass(registry, name, anc) ==
    \/ name = anc
    \/ \E i \in DOMAIN registry :
          /\ registry[i].name = name
          /\ \E k \in DOMAIN registry[i].bases :
                IsSubclass(SubSeq(registry, 1, i - 1), registry[i].bases[k], anc)

\* a class statement that Python accepts: no base comes before a subclass of
\* it in the list of bases (the method resolution order would be inconsistent)
ConsistentBases(registry, bases) ==
    \A j, k \in DOMAIN bases : j < k => ~IsSubclass(registry, bases[k], bases[j])

\* the type registries of the hierarchy: the roots and up to three classes
\* defined after them, with one or two bases each
OneClass == {RootClasses \o <<GenericClass(Alpha, b)>> :
                b \in {<<EasyBlock>>, <<Extension>>, <<EasyBlock, Extension>>}}
TwoClasses == {r \o <<GenericClass(beta, b)>> :
                r \in OneClass, b \in {<<EasyBlock>>, <<Extension>>, <<Alpha>>}}
ThreeClasses ==
    {r \o <<GenericClass(Gamma, b)>> :
        r \in TwoClasses,
        b \in {<<Alpha, beta>>, <<beta, Alpha>>, <<beta>>, <<Alpha, Extension>>}}
\* a class that derives from neither root, and a class that derives from it,
\* alone or next to a class below a root
Mixin == <<"M","i","x","i","n">>
Delta == <<"D","e","l","t","a">>
WithOutsiders ==
    {r \o <<GenericClass(Mixin, <<>>), GenericClass(Delta, b)>> :
        r \in OneClass, b \in {<<Mixin>>, <<Mixin, Alpha>>}}
Hierarchies ==
    {r \in {RootClasses} \cup OneClass \cup TwoClasses \cup ThreeClasses \cup WithOutsiders :
        \A i \in DOMAIN r : ConsistentBases(SubSeq(r, 1, i - 1), r[i].bases)}

\* the classes of the overview: those of the framework and those of the
\* package of generic easyblocks
PackageName == <<"easybuild.easyblocks.generic">>
ExtensionEasyBlock == <<"E","x","t","e","n","s","i","o","n","E","a","s","y","B","l","o","c","k">>
ConfigureMake == <<"C","o","n","f","i","g","u","r","e","M","a","k","e">>
CMakeMake == <<"C","M","a","k","e","M","a","k","e">>
PerlModule == <<"P","e","r","l","M","o","d","u","l","e">>
Helper == <<"H","e","l","p","e","r">>

EmptyHooks == [k \in {} |-> NoDoc]

EbUniverse ==
    (EasyBlock :>
        [name |-> EasyBlock, module |-> <<"easybuild.framework.easyblock">>, bases |-> <<>>,
         doc |-> Doc(<<<<"Generic support for building and installing software.">>>>),
         dict |-> ("configure_step" :> Doc(<<<<"Configure build (abstract method).">>>>))
                  @@ ("build_step" :> Doc(<<<<"Build software (abstract method).">>>>))
                  @@ ("install_step" :> Doc(<<<<"Install built software (abstract method).">>>>)),
         extra_options |-> EmptyDict])
    @@ (Extension :>
        [name |-> Extension, module |-> <<"easybuild.framework.extension">>, bases |-> <<>>,
         doc |-> Doc(<<<<"Support for installing extensions.">>>>),
         dict |-> EmptyHooks, extra_options |-> EmptyDict])
    @@ (ExtensionEasyBlock :>
        [name |-> ExtensionEasyBlock, module |-> <<"easybuild.framework.extensioneasyblock">>,
         bases |-> <<EasyBlock, Extension>>, doc |-> NoDoc,
         dict |-> EmptyHooks, extra_options |-> EmptyDict])
    @@ (ConfigureMake :>
        [name |-> ConfigureMake, module |-> PackageName \o <<".configuremake">>,
         bases |-> <<EasyBlock>>,
         doc |-> Doc(<<<<>>, <<"    ", "Support for building and installing applications with">>,
                       <<"    ", "configure/make/make install.">>, <<"    ">>>>),
         dict |-> ("configure_step" :> Doc(<<<<"Configure step, using the configure script.">>>>))
                  @@ ("build_step" :> NoDoc),
         extra_options |->
            (<<"c","o","n","f","i","g","u","r","e","_","c","m","d">> :>
                <<<<"./configure">>, <<"Configure command to use">>, CatCustom>>)])
    @@ (CMakeMake :>
        [name |-> CMakeMake, module |-> PackageName \o <<".cmakemake">>,
         bases |-> <<ConfigureMake>>, doc |-> NoDoc,
         dict |-> ("configure_step" :> Doc(<<<<"Configure build using cmake">>>>)),
         extra_options |-> Easyblocks[CMakeMake].extra_options])
    @@ (PerlModule :>
        [name |-> PerlModule, module |-> PackageName \o <<".perlmodule">>,
         bases |-> <<ExtensionEasyBlock, ConfigureMake>>,
         doc |-> Doc(<<<<"Builds and installs a Perl module.">>>>),
         dict |-> ("install_step" :>
                      Doc(<<<<>>, <<"    ", "Install with make install.">>, <<"    ">>>>))
                  @@ ("build_step" :> Doc(<<>>)),
         extra_options |-> EmptyDict])
    @@ (Helper :>
        [name |-> Helper, module |-> PackageName \o <<".helpers">>, bases |-> <<>>,
         doc |-> NoDoc, dict |-> EmptyHooks, extra_options |-> EmptyDict])

\* the modules that import_available_modules can find in the package, in the
\* order of their names; helpers defines no easyblock
AvailableModules ==
    <<[name |-> PackageName \o <<".cmakemake">>, members |-> {CMakeMake, ConfigureMake}],
      [name |-> PackageName \o <<".configuremake">>, members |-> {ConfigureMake, EasyBlock}],
      [name |-> PackageName \o <<".helpers">>, members |-> {Helper, EasyBlock}],
      [name |-> PackageName \o <<".perlmodule">>,
       members |-> {PerlModule, ConfigureMake, ExtensionEasyBlock}]>>

\* the elements of seq whose index is in S, in their order
Pick(seq, S) ==
    LET F[i \in 0..Len(seq)] ==
            IF i = 0 THEN <<>>
            ELSE IF i \in S THEN Append(F[i - 1], seq[i]) ELSE F[i - 1]
    IN  F[Len(seq)]

\* the packages: any of the modules, in the order of their names
Packages == {Pick(AvailableModules, S) : S \in SUBSET DOMAIN AvailableModules}

\* the package of the process whose registries are filled
SamplePackage == Pick(AvailableModules, DOMAIN AvailableModules \ {3})

\* the names of the step functions that the overview is asked to document
StepFunctions == {"configure_step", "build_step", "install_step"}

\* doc_functions: any of the step functions, each at most once, in any order
DocFunctions ==
    {s \in SeqsUpTo(StepFunctions, Cardinality(StepFunctions)) :
        \A i, j \in DOMAIN s : i # j => s[i] # s[j]}

\* what the caller of the overview gives besides doc_functions: common_params
\* and the files <name>.eb under path_to_examples, each as its lines; either
\* nothing, or the common parameters and the example of ConfigureMake
OverviewArgs ==
    {[common_params |-> [k \in {} |-> <<>>], examples |-> [k \in {} |-> <<>>]],
     [common_params |->
        (ConfigureMake :> <<<<"c","o","n","f","i","g","o","p","t","s">>,
                            <<"s","r","c","d","i","r">>>>),
      examples |-> (ConfigureMake :> <<<<"easyblock = 'ConfigureMake'">>, <<"name = 'zlib'">>>>)]}

\* None.__doc__: None up to Python 3.12, the docstring of NoneType after it
NoneDocs == {NoDoc, Doc(<<<<"The type of the None singleton.">>>>)}

\* module -> path of the file that defines it
SampleLocations ==
    (<<"easybuild.easyblocks.generic.configuremake">> :> <<"/eb/generic/configuremake.py">>)
    @@ (<<"easybuild.framework.easyblock">> :> <<"/eb/framework/easyblock.py">>)
    @@ (GenericClass(Alpha, <<>>).module :> <<"/eb/generic/alpha.py">>)

SampleToolchains ==
    (<<"f","o","s","s">> :>
        [definition |-> ("COMPILER" :> <<<<"G","C","C">>>>) @@ ("MPI" :> <<<<"O","p","e","n","M","P","I">>>>)
                        @@ ("BLAS" :> <<<<"F","l","e","x","i","B","L","A","S">>>>) @@ ("LAPACK" :> <<<<"F","l","e","x","i","B","L","A","S">>>>)
                        @@ ("SCALAPACK" :> <<<<"S","c","a","L","A","P","A","C","K">>>>) @@ ("FFT" :> <<<<"F","F","T","W">>>>),
         opts |-> <<Attr(<<"p","i","c">> :> <<<<"False">>, <<"Use PIC">>>>), NoAttr,
                    Attr(<<"u","s","e","m","p","i">> :> <<<<"False">>, <<"Use MPI compiler">>>>), NoAttr>>])
    @@ (<<"G","C","C">> :>
        [definition |-> ("COMPILER" :> <<<<"G","C","C">>>>),
         opts |-> <<Attr(<<"p","i","c">> :> <<<<"False">>, <<"Use PIC">>>>),
                    Attr(<<"l","t","o">> :> <<<<"False">>, <<"Enable LTO">>>>), NoAttr, NoAttr>>])
    @@ (<<"C","r","a","y","G","N","U">> :>
        [definition |-> ("COMPILER" :> <<<<"P","r","g","E","n","v","-","g","n","u">>>>),
         opts |-> <<NoAttr, NoAttr, NoAttr, NoAttr>>])

\* the toolchain names of the requests: the known ones and one that is not known
ToolchainNames == DOMAIN SampleToolchains \cup {<<"n","o","s","u","c","h">>}

\* a recipe as the parsers return it
Recipe(name, version, versionsuffix, tc_name, tc_version) ==
    [name |-> name, version |-> version, versionsuffix |-> versionsuffix,
     toolchain |-> [name |-> tc_name, version |-> tc_version],
     description |-> <<"About ">> \o name \o <<"\n", " version ">> \o version,
     homepage |-> <<"https://", "%(namelower)s", ".org">>]

Recipes ==
    {Recipe(<<"F","o","o">>, <<"2",".","0">>, <<>>, SYSTEM_TOOLCHAIN_NAME, <<>>),
     [Recipe(<<"F","o","o">>, <<"1","0",".","0">>, <<>>, <<"f","o","s","s">>, <<"2","0","2","3","a">>)
         EXCEPT !.homepage = <<"https://", "%(namelower)s", ".org", "/10">>],
     Recipe(<<"F","o","o">>, <<"2",".","0">>, <<"-","x">>, SYSTEM_TOOLCHAIN_NAME, <<>>),
     Recipe(<<"F","o","o">>, <<"2",".","0">>, <<>>, <<"f","o","s","s">>, <<"2","0","2","3","a">>),
     Recipe(<<"b","a","r">>, <<"1",".","0">>, <<>>, SYSTEM_TOOLCHAIN_NAME, <<>>)}

\* recipes whose fields hold templates: some resolve, some name a key that
\* template_constant_dict does not give, some are malformed; each has its own name
TemplatedRecipes ==
    {[Recipe(<<"F","o","o">>, <<"1",".","0">>, <<"-", "%(nosuch)s">>, SYSTEM_TOOLCHAIN_NAME, <<>>)
         EXCEPT !.description = <<"About ", "%(name)s">>],
     [Recipe(<<"b","a","r">>, <<"2",".","0">>, <<>>, SYSTEM_TOOLCHAIN_NAME, <<>>)
         EXCEPT !.description = <<"%(name)", " tool">>,
                !.homepage = <<"https://", "%(name)d", ".org">>],
     [Recipe(<<"b","a","z">>, <<"1", ".", "%(nosuch)s">>, <<"-", "%(namelower)s">>,
             <<"f","o","s","s">>, <<"2","0","2","3","a">>)
         EXCEPT !.description = <<"%(name)s", " for ", "%(nosuch)s">>],
     [Recipe(<<"q","u","x">>, <<"3">>, <<>>, SYSTEM_TOOLCHAIN_NAME, <<>>)
         EXCEPT !.description = <<"%(name)s", " at 100", "%">>,
                !.homepage = <<"https://qux.org">>]}

\* what modules_tool().available() can report
AvailModNames ==
    {{},
     {<<"F","o","o","/","2",".","0">>},
     {<<"F","o","o","/","2",".","0">>, <<"F","o","o","/","2",".","0","-","x">>,
      <<"b","a","r","/","1",".","0">>}}

\* the recipes of the process whose registries are filled
SampleEcs ==
    <<Recipe(<<"F","o","o">>, <<"2",".","0">>, <<>>, SYSTEM_TOOLCHAIN_NAME, <<>>),
      Recipe(<<"b","a","r">>, <<"1",".","0">>, <<>>, SYSTEM_TOOLCHAIN_NAME, <<>>)>>

\* at most this many recipes are found
MaxEcs == 2

\* recipes that differ in their names: two names of one letter that differ in
\* case, a name of another letter and a name that starts with a digit
NameRecipes ==
    {Recipe(<<"F","o","o">>, <<"2",".","0">>, <<>>, SYSTEM_TOOLCHAIN_NAME, <<>>),
     Recipe(<<"f","a","b">>, <<"1",".","0">>, <<>>, SYSTEM_TOOLCHAIN_NAME, <<>>),
     Recipe(<<"b","a","r">>, <<"1",".","0">>, <<>>, SYSTEM_TOOLCHAIN_NAME, <<>>),
     Recipe(<<"7","z">>, <<"1",".","0">>, <<>>, SYSTEM_TOOLCHAIN_NAME, <<>>)}

\* at most this many recipes of different names are found
MaxNames == 3

\* the format selectors of the requests: the closed set and one outside of it
Formats == {FORMAT_TXT, FORMAT_MD, FORMAT_RST, FORMAT_JSON, "yaml"}

-----------------------------------------------------------------------------
(* The state: the registries of the process, the last request, and what it  *)
(* gave.                                                                     *)

VARIABLES
    DEFAULT_CONFIG,             \* the base schema, a module-level dict
    EASYCONFIG_CONSTANTS,       \* the registry of easyconfig constants
    EASYCONFIG_LICENSES_DICT,   \* the registry of licenses
    templates,                  \* the registries of easyconfig.templates
    classes,                    \* the type registry: the classes that are defined
    toolchains,                 \* the toolchain registry
    ec_files,                   \* the recipes find_matching_easyconfigs finds
    modules,                    \* the modules import_available_modules finds
    none_doc,                   \* None.__doc__ of the interpreter
    req,                        \* the last request
    res,                        \* what the last request gave: text or exception
    handed,                     \* what the last request handed to generate_doc
    obs                         \* what the last request gathered on its way

vars == <<DEFAULT_CONFIG, EASYCONFIG_CONSTANTS, EASYCONFIG_LICENSES_DICT, templates,
          classes, toolchains, ec_files, modules, none_doc, req, res, handed, obs>>

registries == <<EASYCONFIG_CONSTANTS, EASYCONFIG_LICENSES_DICT, templates, classes,
                toolchains, ec_files, modules, none_doc>>

NoReq ==
    [report |-> "", output_format |-> "", easyblock |-> <<>>, detailed |-> FALSE,
     only_installed |-> FALSE, avail_mod_names |-> {}, name |-> <<>>,
     go_cfg_constants |-> <<>>, mode |-> "", common_params |-> [k \in {} |-> <<>>],
     doc_functions |-> <<>>, examples |-> [k \in {} |-> <<>>]]

NoRes == [kind |-> "", text |-> <<>>, msg |-> <<>>]

NoObs ==
    [all_software |-> <<>>, parsed |-> 0, instantiated |-> {}, easyblocks |-> {},
     software_after |-> <<>>]

Request(report, output_format) ==
    [NoReq EXCEPT !.report = report, !.output_format = output_format]

InitRequest ==
    /\ req = NoReq
    /\ res = NoRes
    /\ handed = NotHanded
    /\ obs = NoObs

\* a process whose registries are all empty, or all filled
Init ==
    /\ \E filled \in BOOLEAN :
        /\ DEFAULT_CONFIG = IF filled THEN BaseParams ELSE EmptyDict
        /\ EASYCONFIG_CONSTANTS = IF filled THEN SampleConstants ELSE EmptyDict
        /\ EASYCONFIG_LICENSES_DICT = IF filled THEN SampleLicenses ELSE EmptyDict
        /\ templates = IF filled THEN SampleTemplates ELSE EmptyTemplates
        /\ classes = IF filled THEN SampleClasses ELSE RootClasses
        /\ toolchains = IF filled THEN SampleToolchains ELSE EmptyDict
        /\ ec_files = IF filled THEN SampleEcs ELSE <<>>
        /\ modules = IF filled THEN SamplePackage ELSE <<>>
    /\ none_doc = NoDoc
    /\ InitRequest

\* a process with any base schema; the other registries are empty
InitParams ==
    /\ DEFAULT_CONFIG \in {Restrict(BaseParams, keys) : keys \in SUBSET DOMAIN BaseParams}
    /\ EASYCONFIG_CONSTANTS = EmptyDict
    /\ EASYCONFIG_LICENSES_DICT = EmptyDict
    /\ templates = EmptyTemplates
    /\ classes = RootClasses
    /\ toolchains = EmptyDict
    /\ ec_files = <<>>
    /\ modules = <<>>
    /\ none_doc = NoDoc
    /\ InitRequest

\* a process that finds any recipes; the other registries are empty
InitSoftware ==
    /\ DEFAULT_CONFIG = EmptyDict
    /\ EASYCONFIG_CONSTANTS = EmptyDict
    /\ EASYCONFIG_LICENSES_DICT = EmptyDict
    /\ templates = EmptyTemplates
    /\ classes = RootClasses
    /\ toolchains = EmptyDict
    /\ ec_files \in SeqsUpTo(Recipes, MaxEcs)
    /\ modules = <<>>
    /\ none_doc = NoDoc
    /\ InitRequest

\* a process that finds recipes of different names, each once
InitLetters ==
    /\ DEFAULT_CONFIG = EmptyDict
    /\ EASYCONFIG_CONSTANTS = EmptyDict
    /\ EASYCONFIG_LICENSES_DICT = EmptyDict
    /\ templates = EmptyTemplates
    /\ classes = RootClasses
    /\ toolchains = EmptyDict
    /\ ec_files \in {ecs \in SeqsUpTo(NameRecipes, MaxNames) :
                        \A i, j \in DOMAIN ecs : ecs[i] = ecs[j] => i = j}
    /\ modules = <<>>
    /\ none_doc = NoDoc
    /\ InitRequest

\* a process that finds recipes whose fields hold templates
InitResolve ==
    /\ DEFAULT_CONFIG = EmptyDict
    /\ EASYCONFIG_CONSTANTS = EmptyDict
    /\ EASYCONFIG_LICENSES_DICT = EmptyDict
    /\ templates = EmptyTemplates
    /\ classes = RootClasses
    /\ toolchains = EmptyDict
    /\ ec_files \in SeqsUpTo(TemplatedRecipes, MaxEcs)
    /\ modules = <<>>
    /\ none_doc = NoDoc
    /\ InitRequest

\* a process with any type registry; the other registries are empty
InitHierarchy ==
    /\ DEFAULT_CONFIG = EmptyDict
    /\ EASYCONFIG_CONSTANTS = EmptyDict
    /\ EASYCONFIG_LICENSES_DICT = EmptyDict
    /\ templates = EmptyTemplates
    /\ classes \in Hierarchies
    /\ toolchains = EmptyDict
    /\ ec_files = <<>>
    /\ modules = <<>>
    /\ none_doc = NoDoc
    /\ InitRequest

\* a process with any template registries; the other registries are empty
InitTemplates ==
    /\ DEFAULT_CONFIG = EmptyDict
    /\ EASYCONFIG_CONSTANTS = EmptyDict
    /\ EASYCONFIG_LICENSES_DICT = EmptyDict
    /\ templates \in TemplateRegistries
    /\ classes = RootClasses
    /\ toolchains = EmptyDict
    /\ ec_files = <<>>
    /\ modules = <<>>
    /\ none_doc = NoDoc
    /\ InitRequest

\* a process with any package of easyblocks and any interpreter; the base
\* schema is filled, the other registries are empty
InitOverview ==
    /\ DEFAULT_CONFIG = BaseParams
    /\ EASYCONFIG_CONSTANTS = EmptyDict
    /\ EASYCONFIG_LICENSES_DICT = EmptyDict
    /\ templates = EmptyTemplates
    /\ classes = RootClasses
    /\ toolchains = EmptyDict
    /\ ec_files = <<>>
    /\ modules \in Packages
    /\ none_doc \in NoneDocs
    /\ InitRequest

AvailCfgfileConstants ==
    \E go_cfg_constants \in CfgConstants, output_format \in Formats :
        /\ req' = [Request("avail_cfgfile_constants", output_format)
                      EXCEPT !.go_cfg_constants = go_cfg_constants]
        /\ res' = avail_cfgfile_constants(go_cfg_constants, output_format)
        /\ handed' = Handed("avail_cfgfile_constants", output_format, <<go_cfg_constants>>)
        /\ obs' = NoObs
        /\ UNCHANGED <<DEFAULT_CONFIG, registries>>

AvailEasyconfigConstants ==
    \E output_format \in Formats :
        /\ req' = Request("avail_easyconfig_constants", output_format)
        /\ res' = avail_easyconfig_constants(EASYCONFIG_CONSTANTS, output_format)
        /\ handed' = Handed("avail_easyconfig_constants", output_format,
                            <<EASYCONFIG_CONSTANTS>>)
        /\ obs' = NoObs
        /\ UNCHANGED <<DEFAULT_CONFIG, registries>>

AvailEasyconfigLicenses ==
    \E output_format \in Formats :
        /\ req' = Request("avail_easyconfig_licenses", output_format)
        /\ res' = avail_easyconfig_licenses(EASYCONFIG_LICENSES_DICT, output_format)
        /\ handed' = Handed("avail_easyconfig_licenses", output_format,
                            <<EASYCONFIG_LICENSES_DICT>>)
        /\ obs' = NoObs
        /\ UNCHANGED <<DEFAULT_CONFIG, registries>>

AvailEasyconfigParams ==
    \E easyblock \in EasyblockIds, output_format \in Formats :
        \E r \in {params_request(DEFAULT_CONFIG, Easyblocks,
                                  ALTERNATIVE_EASYCONFIG_PARAMETERS, easyblock)} :
            /\ req' = [Request("avail_easyconfig_params", output_format)
                          EXCEPT !.easyblock = easyblock]
            /\ DEFAULT_CONFIG' = r.DEFAULT_CONFIG
            /\ handed' = Handed("avail_easyconfig_params", output_format, r.params)
            /\ res' = generate_doc("avail_easyconfig_params", output_format, r.params)
            /\ obs' = NoObs
            /\ UNCHANGED registries

AvailEasyconfigTemplates ==
    \E output_format \in Formats :
        /\ req' = Request("avail_easyconfig_templates", output_format)
        /\ res' = avail_easyconfig_templates(templates, output_format)
        /\ handed' = Handed("avail_easyconfig_templates", output_format, <<templates>>)
        /\ obs' = NoObs
        /\ UNCHANGED <<DEFAULT_CONFIG, registries>>

ListEasyblocks ==
    \E mode \in {SIMPLE, DETAILED}, output_format \in Formats :
        /\ req' = [Request("list_easyblocks", output_format) EXCEPT !.mode = mode]
        /\ res' = list_easyblocks(classes, SampleLocations, mode, output_format)
        /\ handed' = NotHanded
        /\ obs' = NoObs
        /\ UNCHANGED <<DEFAULT_CONFIG, registries>>

ListSoftware ==
    \E output_format \in Formats, detailed \in BOOLEAN, only_installed \in BOOLEAN :
        \E avail_mod_names \in IF only_installed THEN AvailModNames ELSE {{}} :
            \E r \in {software_request(ec_files, only_installed, avail_mod_names)} :
                /\ req' = [Request("list_software", output_format)
                              EXCEPT !.detailed = detailed,
                                     !.only_installed = only_installed,
                                     !.avail_mod_names = avail_mod_names]
                /\ handed' = Handed("list_software", output_format, <<r.software, detailed>>)
                /\ res' = generate_doc("list_software", output_format, <<r.software, detailed>>)
                /\ obs' = [NoObs EXCEPT !.all_software = r.all_software,
                                        !.parsed = Len(ec_files),
                                        !.software_after =
                                            IF output_format = FORMAT_JSON
                                            THEN list_software_json_mapping(r.software, detailed)
                                            ELSE r.software]
                /\ UNCHANGED <<DEFAULT_CONFIG, registries>>

ListToolchains ==
    \E output_format \in Formats :
        /\ req' = Request("list_toolchains", output_format)
        /\ res' = list_toolchains(toolchains, output_format)
        /\ handed' = Handed("list_toolchains", output_format,
                            <<toolchain_definitions(toolchains)>>)
        /\ obs' = [NoObs EXCEPT !.instantiated = DOMAIN toolchains]
        /\ UNCHANGED <<DEFAULT_CONFIG, registries>>

AvailToolchainOpts ==
    \E name \in ToolchainNames, output_format \in Formats :
        LET tc_class == search_toolchain(toolchains, name)
        IN  /\ req' = [Request("avail_toolchain_opts", output_format) EXCEPT !.name = name]
            /\ res' = avail_toolchain_opts(toolchains, name, output_format)
            /\ handed' = IF tc_class = NoToolchain THEN NotHanded
                         ELSE Handed("avail_toolchain_opts", output_format,
                                     <<name, toolchain_options(tc_class.opts)>>)
            /\ obs' = [NoObs EXCEPT !.instantiated = IF tc_class = NoToolchain THEN {} ELSE {name}]
            /\ UNCHANGED <<DEFAULT_CONFIG, registries>>

GetEasyblockClasses ==
    \E found \in {get_easyblock_classes(EbUniverse, PackageName, modules)} :
        /\ req' = Request("get_easyblock_classes", "")
        /\ res' = IF found.raised THEN found.exc ELSE ReturnList(<<>>)
        /\ handed' = NotHanded
        /\ obs' = [NoObs EXCEPT !.easyblocks = found.easyblocks]
        /\ UNCHANGED <<DEFAULT_CONFIG, registries>>

\* the json overview fails whatever its arguments: it is asked for with none
GenEasyblocksOverview ==
    \E output_format \in {FORMAT_MD, FORMAT_RST, FORMAT_JSON} :
      \E args \in IF output_format = FORMAT_JSON
                   THEN {CHOOSE a \in OverviewArgs : DOMAIN a.examples = {}}
                   ELSE OverviewArgs,
         doc_functions \in IF output_format = FORMAT_JSON THEN {<<>>} ELSE DocFunctions :
        \E found \in {get_easyblock_classes(EbUniverse, PackageName, modules)} :
            /\ req' = [Request("gen_easyblocks_overview", output_format)
                          EXCEPT !.examples = args.examples,
                                 !.common_params = args.common_params,
                                 !.doc_functions = doc_functions]
            /\ res' = gen_easyblocks_overview(EbUniverse, PackageName, modules, output_format,
                                              args.examples, args.common_params,
                                              doc_functions, DEFAULT_CONFIG, none_doc)
            /\ handed' = NotHanded
            /\ obs' = [NoObs EXCEPT !.easyblocks = IF output_format = FORMAT_JSON THEN {}
                                                   ELSE found.easyblocks]
            /\ UNCHANGED <<DEFAULT_CONFIG, registries>>

Next ==
    \/ AvailCfgfileConstants
    \/ AvailEasyconfigConstants
    \/ AvailEasyconfigLicenses
    \/ AvailEasyconfigParams
    \/ AvailEasyconfigTemplates
    \/ ListEasyblocks
    \/ ListSoftware
    \/ ListToolchains
    \/ AvailToolchainOpts

Spec == Init /\ [][Next]_vars

\* requests for the parameter catalog only, over any base schema
NextParams == AvailEasyconfigParams
SpecParams == InitParams /\ [][NextParams]_vars

\* requests for the software catalog only, over any recipes
NextSoftware == ListSoftware
SpecSoftware == InitSoftware /\ [][NextSoftware]_vars

\* requests for the template catalog only, over any template registries
NextTemplates == AvailEasyconfigTemplates
SpecTemplates == InitTemplates /\ [][NextTemplates]_vars

\* the overview of the easyblocks of a package, over any package
NextOverview ==
    \/ GetEasyblockClasses
    \/ GenEasyblocksOverview
SpecOverview == InitOverview /\ [][NextOverview]_vars

\* requests for the plugin hierarchy only, over any type registry
NextHierarchy == ListEasyblocks
SpecHierarchy == InitHierarchy /\ [][NextHierarchy]_vars

\* requests for the software catalog only, over recipes that hold templates
NextResolve == ListSoftware
SpecResolve == InitResolve /\ [][NextResolve]_vars

\* requests for the software catalog only, over recipes of different names
NextLetters == ListSoftware
SpecLetters == InitLetters /\ [][NextLetters]_vars

-----------------------------------------------------------------------------
(* Properties of the reports.  A state holds the last request in req, what   *)
(* that request handed to generate_doc in handed, and what it gave in res.   *)

\* the formats for which a report has a renderer that is not a stub
SupportedFormats(report) ==
    IF report = "list_software" THEN {FORMAT_TXT, FORMAT_MD, FORMAT_RST, FORMAT_JSON}
    ELSE {FORMAT_TXT, FORMAT_MD, FORMAT_RST}

\* the last request named a toolchain that is not known
UnknownToolchain ==
    req.report = "avail_toolchain_opts" /\ req.name \notin DOMAIN toolchains

UnsupportedRequest ==
    /\ req.report # ""
    /\ req.output_format \notin SupportedFormats(req.report)
    /\ ~UnknownToolchain

SupportedRequest ==
    /\ req.report # ""
    /\ req.output_format \in SupportedFormats(req.report)
    /\ ~UnknownToolchain

\* whether the message of an exception holds the chunk
Carries(msg, chunk) == \E i \in DOMAIN msg : msg[i] = chunk
CarriesFormat(msg, output_format) ==
    \/ Carries(msg, output_format)
    \/ output_format = FORMAT_JSON /\ Carries(msg, "JSON")

\* C1: a request of any report for a format that has no renderer, or only a
\* stub, fails with one and the same kind of error, the error carries the
\* report name and the format, and no text is returned
C1_UnsupportedFormat ==
    [][UnsupportedRequest' =>
          /\ res'.kind # "return"
          /\ res'.text = <<>>
          /\ Carries(res'.msg, req'.report)
          /\ CarriesFormat(res'.msg, req'.output_format)
          /\ (UnsupportedRequest => res'.kind = res.kind)]_vars

\* the title of the report of the last request
ReportTitle ==
    CASE req.report = "avail_cfgfile_constants" -> CfgfileTitle
      [] req.report = "avail_easyconfig_constants" -> ConstantsTitle
      [] req.report = "avail_easyconfig_licenses" -> LicensesTitle
      [] req.report = "avail_easyconfig_params" -> ParamsTitle
      [] req.report = "avail_easyconfig_templates" -> TemplTitleEasyconfig
      [] req.report = "list_software" -> SoftwareTitle
      [] req.report = "list_toolchains" -> ToolchainsTitle
      [] req.report = "avail_toolchain_opts" -> ToolchainOptsTitle(req.name)

\* whether a line of the text holds the title
HasTitle(text, title) == \E i \in DOMAIN text : Contains(text[i].s, title)

\* the requests whose renderer writes no title
Untitled ==
    \/ req.report = "list_easyblocks"
    \/ req.report = "list_software" /\ req.output_format \in {FORMAT_TXT, FORMAT_JSON}

-----------------------------------------------------------------------------
(* The parameter catalog *)

ParamsRequest == req.report = "avail_easyconfig_params"

\* the extra parameters of the plugin that the last request named
ExtrasOfRequest == extra_options(get_easyblock_class(Easyblocks, req.easyblock))

\* the names in the grouped parameters handed to the renderer
HandedNames ==
    UNION {DOMAIN handed.params[2][g].params : g \in DOMAIN handed.params[2]}

\* a cell or a name without its n leading and its n trailing chunks
Unquote(cell, n) == SubSeq(cell, n + 1, Len(cell) - n)

\* the name at the start of a line of the txt catalog: the chunks before the padding
TxtParamName(s) == SubSeq(s, 1, MinOf({i \in DOMAIN s : s[i] \in {" ", "  "}}) - 1)

\* the parameter names that the text of a catalog shows: the first cell of a
\* row of a table, the start of a line with a default in txt
RenderedParamNames(text, output_format) ==
    IF output_format = FORMAT_TXT
    THEN {TxtParamName(text[i].s) :
            i \in {j \in DOMAIN text : Carries(text[j].s, "[default: ")}}
    ELSE {Unquote(text[i].cells[1], 1) : i \in {j \in DOMAIN text : text[j].t = "row"}}

CountStars(name) == Cardinality({i \in DOMAIN name : name[i] = "*"})

\* a shown name is an extra parameter with one marker at its end, or a
\* parameter of the base schema alone without a marker
MarkerOnce(shown, extra_params, base) ==
    \/ /\ CountStars(shown) = 1
       /\ shown[Len(shown)] = "*"
       /\ SubSeq(shown, 1, Len(shown) - 1) \in DOMAIN extra_params
    \/ /\ CountStars(shown) = 0
       /\ shown \in (DOMAIN base) \ (DOMAIN extra_params)

\* the request without extra parameters over the schema: what it renders
RendersBase(schema, output_format) ==
    generate_doc("avail_easyconfig_params", output_format,
                 <<ParamsTitle, group_params(schema, EmptyDict, sorted_categories),
                   reverse_mapping(ALTERNATIVE_EASYCONFIG_PARAMETERS)>>)

\* C3: no request for the parameter catalog, failing ones included, changes
\* DEFAULT_CONFIG, and a request without extra parameters gives what the base
\* schema as it was before the requests renders
C3_BaseSchemaUnchanged ==
    [][/\ DEFAULT_CONFIG' = DEFAULT_CONFIG
       /\ (ParamsRequest' /\ DOMAIN ExtrasOfRequest' = {} =>
              res' = RendersBase(DEFAULT_CONFIG, req'.output_format))]_vars

\* a request merged the extra parameters of CMakeMake, and DEFAULT_CONFIG is
\* the full base schema still
C3_Witness ==
    /\ ParamsRequest
    /\ req.easyblock = <<"C","M","a","k","e","M","a","k","e">>
    /\ <<"s","r","c","d","i","r","*">> \in HandedNames
    /\ DEFAULT_CONFIG = BaseParams

\* C4: for a plugin with extra parameters, every extra parameter that is shown
\* has the marker '*' exactly once, at its end, every extra parameter outside
\* the hidden category is shown, and no parameter of the base schema alone is
\* shown with the marker; in what is handed to the renderer and in the text
C4_MarkerExactlyOnce ==
    ParamsRequest /\ DOMAIN ExtrasOfRequest # {} =>
        /\ \A k \in HandedNames : MarkerOnce(k, ExtrasOfRequest, DEFAULT_CONFIG)
        /\ \A n \in DOMAIN ExtrasOfRequest :
              ExtrasOfRequest[n][3] # CatHidden => (n \o <<"*">>) \in HandedNames
        /\ (res.kind = "return" =>
              /\ \A k \in RenderedParamNames(res.text, req.output_format) :
                    MarkerOnce(k, ExtrasOfRequest, DEFAULT_CONFIG)
              /\ \A n \in DOMAIN ExtrasOfRequest :
                    ExtrasOfRequest[n][3] # CatHidden =>
                        (n \o <<"*">>) \in RenderedParamNames(res.text, req.output_format))

\* the md catalog of CMakeMake shows a marked extra parameter and an unmarked
\* parameter of the base schema
C4_Witness ==
    /\ ParamsRequest
    /\ req.output_format = FORMAT_MD
    /\ res.kind = "return"
    /\ <<"s","e","p","a","r","a","t","e","_","b","u","i","l","d","_","d","i","r","*">>
          \in RenderedParamNames(res.text, req.output_format)
    /\ <<"c","o","n","f","i","g","o","p","t","s">>
          \in RenderedParamNames(res.text, req.output_format)

\* the merged schema of the last request, and its parameters of the hidden category
MergedSchema == dict_update(DEFAULT_CONFIG, ExtrasOfRequest)
HiddenNames == {n \in DOMAIN MergedSchema : MergedSchema[n][3] = CatHidden}

\* whether the names hold the parameter, marked or not
ShowsName(names, n) == n \in names \/ (n \o <<"*">>) \in names

\* whether a line of the text names the hidden group
ShowsHiddenGroup(text) == \E i \in DOMAIN text : Contains(lower(text[i].s), CatHidden[2])

C6_UnknownPluginIsBase ==
    ParamsRequest /\ req.easyblock \notin DOMAIN Easyblocks =>
        /\ (req.output_format \in SupportedFormats(req.report) => res.kind = "return")
        /\ handed.params[1] = ParamsTitle
        /\ handed.params[2] = group_params(DEFAULT_CONFIG, EmptyDict, sorted_categories)
        /\ \A k \in HandedNames : CountStars(k) = 0
        /\ (res.kind = "return" =>
              /\ HasTitle(res.text, ParamsTitle)
              /\ \A i \in DOMAIN res.text :
                    ~Carries(res.text[i].s, " (* indicates specific to the ")
              /\ \A k \in RenderedParamNames(res.text, req.output_format) :
                    CountStars(k) = 0 /\ k \in DOMAIN DEFAULT_CONFIG)

\* the txt catalog for a plugin id that is not known, over the full base schema
C6_Witness ==
    /\ ParamsRequest
    /\ req.easyblock \notin DOMAIN Easyblocks
    /\ req.output_format = FORMAT_TXT
    /\ res.kind = "return"
    /\ DEFAULT_CONFIG = BaseParams
    /\ RenderedParamNames(res.text, req.output_format) # {}

-----------------------------------------------------------------------------
(* The software catalog *)

SoftwareRequest == req.report = "list_software"

\* the catalog handed to the renderer, and its names
HandedSoftware == handed.params[1]
SoftwareKeys == {HandedSoftware[i].key : i \in DOMAIN HandedSoftware}

\* a detailed catalog in a format with a version table or version lines
DetailedCatalog ==
    /\ SoftwareRequest
    /\ req.detailed
    /\ req.output_format \in {FORMAT_TXT, FORMAT_MD, FORMAT_RST}
    /\ res.kind = "return"

\* the line that opens the part of a software name
EntryHeader(output_format, key) ==
    CASE output_format = FORMAT_MD -> Line(<<"### ">> \o key)
      [] output_format = FORMAT_RST -> Line(<<"*">> \o key \o <<"*">>)
      [] output_format = FORMAT_TXT -> Line(<<"* ">> \o key)

EntryStarts(text, output_format, keys) ==
    {i \in DOMAIN text : \E k \in keys : text[i] = EntryHeader(output_format, k)}

\* the lines after the line start, up to the next line in starts
SectionFrom(text, start, starts) ==
    SubSeq(text, start + 1,
           IF \E j \in starts : j > start
           THEN MinOf({j \in starts : j > start}) - 1 ELSE Len(text))

\* the part of the text of a software name
SectionOf(text, output_format, key) ==
    SectionFrom(text, CHOOSE i \in DOMAIN text : text[i] = EntryHeader(output_format, key),
                EntryStarts(text, output_format, SoftwareKeys))

IsHeader(l) == l.t = "header"
IsRow(l) == l.t = "row"
IsVersionLine(l) == l.t = "row" \/ (l.t = "line" /\ l.s # <<>> /\ l.s[1] = "  * ")

\* the pieces of a string between the separators
RECURSIVE Split(_, _)
Split(s, sep) ==
    IF s = <<>> THEN <<>>
    ELSE IF \A i \in DOMAIN s : s[i] # sep THEN <<s>>
    ELSE <<SubSeq(s, 1, MinOf({i \in DOMAIN s : s[i] = sep}) - 1)>>
         \o Split(SubSeq(s, MinOf({i \in DOMAIN s : s[i] = sep}) + 1, Len(s)), sep)

IndexOf(s, chunk) == MinOf({i \in DOMAIN s : s[i] = chunk})

UnquoteAll(strs) == [i \in DOMAIN strs |-> Unquote(strs[i], 1)]

\* what a row of a version table shows
TableRow(cells) ==
    [version |-> Unquote(cells[1], 1),
     versionsuffix |-> IF Len(cells) = 3 /\ cells[2] # <<>> THEN Unquote(cells[2], 1) ELSE <<>>,
     toolchains |-> UnquoteAll(Split(cells[Len(cells)], ", "))]

\* what a version line of the txt catalog shows
TxtRow(s) ==
    [version |-> SubSeq(s, IndexOf(s, " v") + 1,
                        (IF Carries(s, " (versionsuffix: '")
                         THEN IndexOf(s, " (versionsuffix: '") ELSE IndexOf(s, ": ")) - 1),
     versionsuffix |-> IF Carries(s, " (versionsuffix: '")
                       THEN SubSeq(s, IndexOf(s, " (versionsuffix: '") + 1, IndexOf(s, ": ") - 2)
                       ELSE <<>>,
     toolchains |-> Split(SubSeq(s, IndexOf(s, ": ") + 1, Len(s)), ", ")]

ShownRows(lines, output_format) ==
    [i \in DOMAIN lines |->
        IF output_format = FORMAT_TXT THEN TxtRow(lines[i].s) ELSE TableRow(lines[i].cells)]

\* the rows of versions that the text shows for a software name, in their order
RenderedRows(text, output_format, key) ==
    ShownRows(SelectSeq(SectionOf(text, output_format, key), IsVersionLine), output_format)

EntriesOf(key) == DictGet(HandedSoftware, key)

NoRepeat(seq) == \A i, j \in DOMAIN seq : seq[i] = seq[j] => i = j

RowsAscending(rows) ==
    \A i, j \in DOMAIN rows :
        i < j =>
            \/ LooseVersionCmp(rows[i].version, rows[j].version) < 0
            \/ /\ LooseVersionCmp(rows[i].version, rows[j].version) = 0
               /\ StrCmp(rows[i].versionsuffix, rows[j].versionsuffix) <= 0

ShowsVersionsInOrder(rows, entries) ==
    /\ RowsAscending(rows)
    /\ {rows[i].version : i \in DOMAIN rows} = {entries[i].version : i \in DOMAIN entries}

\* C7: in the detailed catalog (txt, md, rst) the rows of a software name are
\* in ascending order of the numeric-aware comparison of their versions, rows
\* of equal versions in the order of their versionsuffix, and a row shows the
\* version string of the entries unchanged
C7_VersionOrder ==
    DetailedCatalog =>
        \A k \in SoftwareKeys :
            ShowsVersionsInOrder(RenderedRows(res.text, req.output_format, k), EntriesOf(k))

\* the md catalog lists 2.0 before 10.0 for a name whose entries came with
\* 10.0 first
C7_Witness ==
    /\ DetailedCatalog
    /\ req.output_format = FORMAT_MD
    /\ <<"F","o","o">> \in SoftwareKeys
    /\ EntriesOf(<<"F","o","o">>)[1].version = <<"1","0",".","0">>
    /\ Len(RenderedRows(res.text, req.output_format, <<"F","o","o">>)) = 2
    /\ RenderedRows(res.text, req.output_format, <<"F","o","o">>)[1].version = <<"2",".","0">>
    /\ RenderedRows(res.text, req.output_format, <<"F","o","o">>)[2].version
          = <<"1","0",".","0">>

PairsOf(rows) == [i \in DOMAIN rows |-> <<rows[i].version, rows[i].versionsuffix>>]

ToolchainsOfPair(entries, pair) ==
    {entries[i].toolchain :
        i \in {j \in DOMAIN entries :
                  <<entries[j].version, entries[j].versionsuffix>> = pair}}

ShowsPairsOnce(rows, entries) ==
    /\ NoRepeat(PairsOf(rows))
    /\ Range(PairsOf(rows))
          = {<<entries[i].version, entries[i].versionsuffix>> : i \in DOMAIN entries}
    /\ \A i \in DOMAIN rows :
          /\ NoRepeat(rows[i].toolchains)
          /\ Range(rows[i].toolchains)
                = ToolchainsOfPair(entries, <<rows[i].version, rows[i].versionsuffix>>)

\* C8: in the detailed catalog (txt, md, rst) every distinct (version,
\* versionsuffix) pair of a software name has exactly one row, and the row
\* lists every toolchain label of the entries with that pair exactly once,
\* however many recipes gave the same combination
C8_PairsOnce ==
    DetailedCatalog =>
        \A k \in SoftwareKeys :
            ShowsPairsOnce(RenderedRows(res.text, req.output_format, k), EntriesOf(k))

\* two recipes gave the same version, versionsuffix and toolchain: one line in txt
C8_Witness ==
    /\ DetailedCatalog
    /\ req.output_format = FORMAT_TXT
    /\ <<"F","o","o">> \in SoftwareKeys
    /\ Len(EntriesOf(<<"F","o","o">>)) = 2
    /\ EntriesOf(<<"F","o","o">>)[1] = EntriesOf(<<"F","o","o">>)[2]
    /\ Len(RenderedRows(res.text, req.output_format, <<"F","o","o">>)) = 1
    /\ Len(RenderedRows(res.text, req.output_format, <<"F","o","o">>)[1].toolchains) = 1

HasSuffix(entries) == \E i \in DOMAIN entries : entries[i].versionsuffix # <<>>

\* the version table of a software name: its title rows and its rows
SuffixColumnAsNeeded(headers, rows, entries) ==
    /\ Len(headers) = 1
    /\ headers[1].cells = IF HasSuffix(entries)
                          THEN <<<<"version">>, <<"versionsuffix">>, <<"toolchain">>>>
                          ELSE <<<<"version">>, <<"toolchain">>>>
    /\ \A i \in DOMAIN rows : Len(rows[i].cells) = Len(headers[1].cells)
    /\ HasSuffix(entries) =>
          \A e \in DOMAIN entries :
              \E i \in DOMAIN rows :
                  /\ rows[i].cells[1] = <<BQ2>> \o entries[e].version \o <<BQ2>>
                  /\ rows[i].cells[2] = IF entries[e].versionsuffix = <<>> THEN <<>>
                                        ELSE <<BQ2>> \o entries[e].versionsuffix \o <<BQ2>>

\* C9: in the detailed md and rst catalog the version table of a software name
\* has the column 'versionsuffix', between 'version' and 'toolchain', exactly
\* when an entry of the name has a versionsuffix that is not empty; a row of an
\* empty versionsuffix then has an empty cell, and every row has as many cells
\* as there are column titles
C9_SuffixColumn ==
    DetailedCatalog /\ req.output_format \in {FORMAT_MD, FORMAT_RST} =>
        \A k \in SoftwareKeys :
            SuffixColumnAsNeeded(
                SelectSeq(SectionOf(res.text, req.output_format, k), IsHeader),
                SelectSeq(SectionOf(res.text, req.output_format, k), IsRow),
                EntriesOf(k))

\* the rst table of a name with one entry with and one without a versionsuffix:
\* three columns, and a row with an empty cell
C9_Witness ==
    /\ DetailedCatalog
    /\ req.output_format = FORMAT_RST
    /\ <<"F","o","o">> \in SoftwareKeys
    /\ HasSuffix(EntriesOf(<<"F","o","o">>))
    /\ \E i \in DOMAIN res.text :
          /\ res.text[i].t = "row"
          /\ Len(res.text[i].cells) = 3
          /\ res.text[i].cells[2] = <<>>

\* entry['mod_name'] in avail_mod_names, for the available modules of the request
Installed(entry) == entry.mod_name \in req.avail_mod_names

NumEntries(software) == Len(Flatten([i \in DOMAIN software |-> software[i].entries]))

\* C10: with only_installed the catalog handed to the renderer has, for each
\* name, exactly the entries whose module name is available, in their order,
\* and a name is in the catalog exactly when one of its entries is retained;
\* without only_installed every entry is handed
C10_OnlyInstalled ==
    SoftwareRequest =>
        IF req.only_installed
        THEN /\ SoftwareKeys
                  = {obs.all_software[i].key :
                        i \in {j \in DOMAIN obs.all_software :
                                  SelectSeq(obs.all_software[j].entries, Installed) # <<>>}}
             /\ Cardinality(SoftwareKeys) = Len(HandedSoftware)
             /\ \A i \in DOMAIN obs.all_software :
                   obs.all_software[i].key \in SoftwareKeys =>
                       EntriesOf(obs.all_software[i].key)
                          = SelectSeq(obs.all_software[i].entries, Installed)
        ELSE /\ HandedSoftware = obs.all_software
             /\ NumEntries(HandedSoftware) = Len(ec_files)

\* of the recipes of two names the available modules retain one entry of one name
C10_Witness ==
    /\ SoftwareRequest
    /\ req.only_installed
    /\ Len(obs.all_software) = 2
    /\ NumEntries(obs.all_software) = 2
    /\ Len(HandedSoftware) = 1
    /\ NumEntries(HandedSoftware) = 1

-----------------------------------------------------------------------------
(* Templates in the fields of the software catalog *)

\* the keys that template_constant_dict gives for a recipe read as a dict
KnownKeys == {"name", "namelower", "version"}

\* the chunks of a raw string that % cannot convert: a lone % at its end, a
\* placeholder without a valid conversion, a placeholder of an unknown key
Unresolvable(raw) ==
    {i \in DOMAIN raw :
        \/ raw[i] \in {"%", "%(name)", "%(name)d"}
        \/ raw[i] = "%(nosuch)s"}

\* the text of a raw string whose placeholders all resolve
Substituted(raw, ec) ==
    Flatten([i \in DOMAIN raw |->
        CASE raw[i] = "%(name)s" -> ec.name
          [] raw[i] = "%(namelower)s" -> lower(ec.name)
          [] raw[i] = "%(version)s" -> ec.version
          [] OTHER -> <<raw[i]>>])

\* the field of the catalog for a raw string of a recipe
ExpectedField(raw, ec) ==
    IF Unresolvable(raw) # {} THEN raw ELSE Substituted(raw, ec)

\* the entry of the catalog that the recipe of index i gave: the entries of a
\* name are in the order of the recipes of that name
EntryOfRecipe(software, ecs, i) ==
    DictGet(software, ecs[i].name)[
        Cardinality({j \in 1..i : ecs[j].name = ecs[i].name})]

FieldsResolvedEachOnItsOwn(software, ecs) ==
    \A i \in DOMAIN ecs :
        /\ HasKey(software, ecs[i].name)
        /\ \A key \in {"description", "homepage", "version", "versionsuffix"} :
              EntryOfRecipe(software, ecs, i)[key] = ExpectedField(ecs[i][key], ecs[i])

\* C11: list_software over recipes read as dicts does not fail on a template
\* that cannot be resolved: in a supported format it returns text, and in the
\* catalog each of description, homepage, version and versionsuffix of each
\* recipe is its raw string if a placeholder of that field fails, and the raw
\* string with its placeholders replaced otherwise, whatever the other fields do
C11_FieldsResolvedOnTheirOwn ==
    SoftwareRequest /\ ~req.only_installed =>
        /\ req.output_format \in SupportedFormats("list_software") => res.kind = "return"
        /\ NumEntries(HandedSoftware) = Len(ec_files)
        /\ FieldsResolvedEachOnItsOwn(HandedSoftware, ec_files)

\* a recipe is listed with one field resolved and another left raw
C11_Witness ==
    /\ SoftwareRequest
    /\ ~req.only_installed
    /\ res.kind = "return"
    /\ \E i \in DOMAIN ec_files :
          LET e == EntryOfRecipe(HandedSoftware, ec_files, i)
          IN  /\ Unresolvable(ec_files[i].versionsuffix) # {}
              /\ e.versionsuffix = ec_files[i].versionsuffix
              /\ Unresolvable(ec_files[i].description) = {}
              /\ e.description # ec_files[i].description
              /\ e.homepage # ec_files[i].homepage

-----------------------------------------------------------------------------
(* The plugin hierarchy *)

HierarchyRequest ==
    /\ req.report = "list_easyblocks"
    /\ req.output_format \in {FORMAT_TXT, FORMAT_MD, FORMAT_RST}
    /\ res.kind = "return"

\* the line of the hierarchy for a root, in the mode of the request
RootName(l) ==
    IF l.s # <<>> /\ l.s[1] \in {"- **", "* **"} THEN Tail(l.s) ELSE l.s

IsRootLineOf(l, root) ==
    /\ l.s # <<>>
    /\ l.s[1] \notin {"  ", "|   ", "|-- "}
    /\ Len(RootName(l)) >= Len(root)
    /\ SubSeq(RootName(l), 1, Len(root)) = root
    /\ (Len(RootName(l)) > Len(root) =>
            RootName(l)[Len(root) + 1] \in {"**", " (", "** ("})

IsRootLine(l) == IsRootLineOf(l, EasyBlock) \/ IsRootLineOf(l, Extension)

RootStarts(text) == {i \in DOMAIN text : IsRootLine(text[i])}

\* the lines of the hierarchy that belong to a root, after the line of the root
RootSection(text, root) ==
    SectionFrom(text, CHOOSE i \in DOMAIN text : IsRootLineOf(text[i], root),
                RootStarts(text))

\* the name on a line of the tree: what follows the indentation and the bullet
RECURSIVE TreeName(_)
TreeName(str) ==
    IF str = <<>> THEN <<>>
    ELSE IF str[1] \in {"  ", "|   ", "|-- ", "- ", "* "} THEN TreeName(Tail(str))
    ELSE IF " (" \in Range(str) THEN SubSeq(str, 1, IndexOf(str, " (") - 1)
    ELSE str

\* how many lines of a section name a class
LinesNaming(section, name) ==
    Cardinality({i \in DOMAIN section : section[i].s # <<>> /\ TreeName(section[i].s) = name})

\* the classes that list the class cls among their bases
Implementers(cls) == {i \in DOMAIN classes : cls \in Range(classes[i].bases)}

\* C12: in txt, md and rst, in simple and in detailed mode, a root without
\* implementing types is one line: no line belongs to it after its own
C12_ChildlessRootOneLine ==
    HierarchyRequest =>
        \A k \in DOMAIN Roots :
            /\ Cardinality({i \in DOMAIN res.text : IsRootLineOf(res.text[i], Roots[k])}) = 1
            /\ (Implementers(Roots[k]) = {} => RootSection(res.text, Roots[k]) = <<>>)

\* what the code does: in txt and md a root without implementing types is one
\* line; in rst two empty lines follow it
C12_ChildlessRootLines ==
    HierarchyRequest =>
        \A k \in DOMAIN Roots :
            /\ Cardinality({i \in DOMAIN res.text : IsRootLineOf(res.text[i], Roots[k])}) = 1
            /\ (Implementers(Roots[k]) = {} =>
                    RootSection(res.text, Roots[k])
                       = IF req.output_format = FORMAT_RST THEN <<Line(<<>>), Line(<<>>)>>
                         ELSE <<>>)

\* a hierarchy in rst where one root has implementing types and the other none
C12_Witness ==
    /\ HierarchyRequest
    /\ req.output_format = FORMAT_RST
    /\ Implementers(EasyBlock) # {}
    /\ Implementers(Extension) = {}
    /\ Len(res.text) > 3

\* the number of paths from a root to a class along the bases of the classes
RECURSIVE Paths(_, _, _)
Paths(registry, root, name) ==
    IF name = root THEN 1
    ELSE IF \A i \in DOMAIN registry : registry[i].name # name THEN 0
    ELSE LET c == ClassOf(registry, name)
             SumOver[k \in 0..Len(c.bases)] ==
                 IF k = 0 THEN 0
                 ELSE SumOver[k - 1]
                      + (IF c.bases[k] \in Range(SubSeq(c.bases, 1, k - 1)) THEN 0
                         ELSE Paths(registry, root, c.bases[k]))
         IN  SumOver[Len(c.bases)]

NonRoots == {classes[i].name : i \in DOMAIN classes} \ Range(Roots)

\* C20: under each root from which it can be reached, a class is named on
\* exactly one line, also when two of its bases descend from that root
C20_OncePerRoot ==
    HierarchyRequest =>
        \A k \in DOMAIN Roots : \A n \in NonRoots :
            Paths(classes, Roots[k], n) > 0 =>
                LinesNaming(RootSection(res.text, Roots[k]), n) = 1

\* C20, as the code has it: under each root a class is named on one line for
\* each path that leads from the root to it along the bases, so once when one
\* path leads to it, and not at all when none does
C20_OncePerPath ==
    HierarchyRequest =>
        \A k \in DOMAIN Roots : \A n \in NonRoots :
            LinesNaming(RootSection(res.text, Roots[k]), n) = Paths(classes, Roots[k], n)

\* a class with two bases that descend from the same root is named twice
\* under that root, and a class with a base under each root once under each
C20_Witness ==
    /\ HierarchyRequest
    /\ \E n \in NonRoots :
          /\ Paths(classes, EasyBlock, n) = 2
          /\ LinesNaming(RootSection(res.text, EasyBlock), n) = 2
    /\ \E n \in NonRoots :
          /\ Paths(classes, EasyBlock, n) = 1
          /\ Paths(classes, Extension, n) = 1
          /\ LinesNaming(RootSection(res.text, Extension), n) = 1

-----------------------------------------------------------------------------
(* The overview of the easyblocks of a package *)

OverviewRequest ==
    /\ req.report = "gen_easyblocks_overview"
    /\ req.output_format \in {FORMAT_MD, FORMAT_RST}
    /\ res.kind = "return"

\* the line that opens the section of a class
ClassStart(output_format, name) ==
    IF output_format = FORMAT_MD THEN Line(<<"## ", BQ2>> \o name \o <<BQ2>>)
    ELSE Line(<<".. _">> \o name \o <<":">>)

ClassStarts(text, output_format, names) ==
    {i \in DOMAIN text : \E n \in names : text[i] = ClassStart(output_format, n)}

\* the lines of the section of a class, after the line that opens it
ClassSection(name) ==
    SectionFrom(res.text,
                CHOOSE i \in DOMAIN res.text :
                    res.text[i] = ClassStart(req.output_format, name),
                ClassStarts(res.text, req.output_format, obs.easyblocks))

\* a bullet of the customised steps: * ``<func>`` - <text>
IsBullet(l) ==
    /\ l.t = "line"
    /\ Len(l.s) >= 5
    /\ l.s[1] = "* " /\ l.s[2] = BQ2 /\ l.s[4] = BQ2 /\ l.s[5] = " - "

\* the bullets of a section as [func, text], in their order
Bullets(section) ==
    LET bullets == SelectSeq(section, IsBullet)
    IN  [i \in DOMAIN bullets |->
            [func |-> bullets[i].s[3], text |-> SubSeq(bullets[i].s, 6, Len(bullets[i].s))]]

\* a function that the class itself defines, with a docstring that is not empty
OwnDocumented(own, func) ==
    func \in DOMAIN own /\ ~own[func].is_none /\ join(<<"\n">>, own[func].lines) # <<>>

\* the bullets for the names that the class itself defines with a docstring,
\* each with the docstring of that function
OwnBullets(own, names) ==
    LET documented == SelectSeq(names, LAMBDA func : OwnDocumented(own, func))
    IN  [i \in DOMAIN documented |->
            [func |-> documented[i],
             text |-> strip_ws(join(<<"\n">>, own[documented[i]].lines))]]

\* C13: the bullets of the section of a class are those of the names in
\* doc_functions that the class itself defines with a docstring, each with the
\* docstring of its own function; any other name gives no bullet and no error
C13_BulletsForOwnHooks ==
    OverviewRequest =>
        \A name \in obs.easyblocks :
            Bullets(ClassSection(name)) = OwnBullets(EbUniverse[name].dict, req.doc_functions)

\* what the code does for the names that the class itself defines: among the
\* bullets of its section, those of such names are the ones of the names
\* defined with a docstring, each with the docstring of its own function
C13_DefinedHooksOwnText ==
    OverviewRequest =>
        \A name \in obs.easyblocks :
            SelectSeq(Bullets(ClassSection(name)),
                      LAMBDA b : b.func \in DOMAIN EbUniverse[name].dict)
              = OwnBullets(EbUniverse[name].dict, req.doc_functions)

\* an overview with a class that defines two of three names, one of them
\* without a docstring, all three being asked for
C13_Witness ==
    /\ OverviewRequest
    /\ Len(req.doc_functions) = 3
    /\ ConfigureMake \in obs.easyblocks
    /\ Bullets(ClassSection(ConfigureMake)) # <<>>

\* the declared bases of a class as the section of the class is to show them
BaseShown(output_format, bname, known) ==
    CASE output_format = FORMAT_MD /\ bname \in known ->
            <<"[", BQ2>> \o bname \o <<BQ2, "](#">> \o lower(bname) \o <<")">>
      [] output_format = FORMAT_MD /\ bname \notin known -> <<BQ2>> \o bname \o <<BQ2>>
      [] output_format = FORMAT_RST /\ bname \in known -> <<":ref:", BQ>> \o bname \o <<BQ>>
      [] output_format = FORMAT_RST /\ bname \notin known -> bname

BasesShown(output_format, bases, known) ==
    <<"(derives from ">>
    \o join(<<", ">>, [k \in DOMAIN bases |-> BaseShown(output_format, bases[k], known)])
    \o <<")">>

\* the lines of a section that list bases
DerivesLines(section) ==
    SelectSeq(section, LAMBDA l : l.t = "line" /\ l.s # <<>> /\ l.s[1] = "(derives from ")

\* C14: in md and rst the section of a class lists the declared bases of the
\* class once, in the order of the declaration, a base being a link if and
\* only if it is one of the easyblocks of the overview, and plain text otherwise
C14_BasesLinkedIffKnown ==
    OverviewRequest =>
        \A name \in obs.easyblocks :
            DerivesLines(ClassSection(name))
              = <<Line(BasesShown(req.output_format, EbUniverse[name].bases, obs.easyblocks))>>

\* an overview with a class that has a base outside the overview and a base
\* inside it
C14_Witness ==
    /\ OverviewRequest
    /\ PerlModule \in obs.easyblocks
    /\ ExtensionEasyBlock \notin obs.easyblocks
    /\ ConfigureMake \in obs.easyblocks
    /\ DerivesLines(ClassSection(PerlModule)) # <<>>

\* a module contributes a class when the class is defined in the package and
\* EasyBlock is among its ancestors
Contributes(mod) ==
    \E name \in mod.members :
        /\ startswith(EbUniverse[name].module, PackageName)
        /\ EasyBlock \in getmro(EbUniverse, name)

ClassesRequest == req.report = "get_easyblock_classes"

\* C15: get_easyblock_classes fails when a module of the package contributes
\* no easyblock, also when modules before it did: the error names the first
\* such module and no set of classes is returned
C15_EmptyModuleFails ==
    ClassesRequest =>
        IF \E i \in DOMAIN modules : ~Contributes(modules[i])
        THEN /\ res.kind = "RuntimeError"
             /\ obs.easyblocks = {}
             /\ \E i \in DOMAIN modules :
                    /\ ~Contributes(modules[i])
                    /\ \A j \in 1..(i - 1) : Contributes(modules[j])
                    /\ res.msg = <<"No easyblocks found in module: %s">> \o modules[i].name
        ELSE res.kind = "return"

\* a failure for a module without easyblocks that comes after a module with
\* easyblocks
C15_Witness ==
    /\ ClassesRequest
    /\ res.kind = "RuntimeError"
    /\ Len(modules) >= 2
    /\ Contributes(modules[1])
    /\ \E i \in DOMAIN modules : i > 1 /\ ~Contributes(modules[i])

-----------------------------------------------------------------------------
(* Repeated requests *)

-----------------------------------------------------------------------------
(* The options of a toolchain *)

ToolchainOptsRequest == req.report = "avail_toolchain_opts"

\* C19: avail_toolchain_opts for a name that is not a toolchain fails in every
\* format, the ones without a renderer included, with an EasyBuildError that
\* names the toolchain and --list-toolchains; no toolchain is instantiated and
\* nothing is handed to a renderer
C19_UnknownToolchainFails ==
    ToolchainOptsRequest /\ req.name \notin DOMAIN toolchains =>
        /\ res.kind = "EasyBuildError"
        /\ res.text = <<>>
        /\ res.msg = <<"Couldn't find toolchain: '">> \o req.name
                     \o <<"'. To see available toolchains, use --list-toolchains">>
        /\ obs.instantiated = {}
        /\ handed = NotHanded

\* a request for the options of an unknown toolchain in a format without a
\* renderer, in a process that has toolchains
C19_Witness ==
    /\ ToolchainOptsRequest
    /\ req.name \notin DOMAIN toolchains
    /\ toolchains # EmptyDict
    /\ req.output_format = "yaml"
    /\ res.kind = "EasyBuildError"

-----------------------------------------------------------------------------
(* The template catalog *)

TemplatesRequest ==
    /\ req.report = "avail_easyconfig_templates"
    /\ req.output_format \in {FORMAT_TXT, FORMAT_MD, FORMAT_RST}
    /\ res.kind = "return"

\* the titles of the seven namespaces, in the order of their precedence
NamespaceTitles ==
    <<<<"Template names/values derived from easyconfig instance">>,
      <<"Template names/values for (short) software versions">>,
      <<"Template names/values as set in easyconfig">>,
      <<"Lowercase values of template values">>,
      <<"Template values set outside EasyBlock runstep">>,
      <<"Template values which are defined dynamically">>,
      <<"Template constants that can be used in easyconfigs">>>>

\* the title that a line shows, if it is a title line of its format
TitleShown(l, output_format) ==
    IF l.t # "line" \/ l.s = <<>> THEN <<>>
    ELSE IF output_format = FORMAT_MD
    THEN (IF l.s[1] = "## " THEN Tail(l.s) ELSE <<>>)
    ELSE l.s

IsNamespaceTitle(l, output_format) ==
    \E k \in DOMAIN NamespaceTitles : TitleShown(l, output_format) = NamespaceTitles[k]

\* the titles of namespaces that the text shows, in their order
TitlesShown(text, output_format) ==
    LET titles == SelectSeq(text, LAMBDA l : IsNamespaceTitle(l, output_format))
    IN  [i \in DOMAIN titles |-> TitleShown(titles[i], output_format)]

\* the lines below the title of the k-th namespace, up to the next title
NamespaceSection(text, output_format, k) ==
    SectionFrom(text,
                CHOOSE i \in DOMAIN text : TitleShown(text[i], output_format) = NamespaceTitles[k],
                {i \in DOMAIN text : IsNamespaceTitle(text[i], output_format)})

\* a line that documents one placeholder or constant
IsTemplateEntry(l, output_format) ==
    IF output_format = FORMAT_TXT
    THEN l.t = "line" /\ l.s # <<>> /\ l.s[1] = "    "
    ELSE l.t = "row" \/ (l.t = "line" /\ l.s # <<>> /\ l.s[1] = "* ")

\* what an entry documents: %(name)s for a placeholder, the name for a constant
EntryShown(l, output_format) ==
    IF output_format = FORMAT_TXT
    THEN (IF ")s" \in Range(l.s) THEN SubSeq(l.s, 2, IndexOf(l.s, ")s"))
          ELSE SubSeq(l.s, 2, IndexOf(l.s, ": ") - 1))
    ELSE IF l.t = "row" THEN Unquote(l.cells[1], 1)
    ELSE Unquote(Tail(l.s), 1)

EntriesShown(section, output_format) ==
    LET entries == SelectSeq(section, LAMBDA l : IsTemplateEntry(l, output_format))
    IN  [i \in DOMAIN entries |-> EntryShown(entries[i], output_format)]

Placeholder(name) == <<"%(">> \o name \o <<")s">>

\* the three placeholder names of a software version role
ThreeOf(prefix) == <<prefix \o <<"majver">>, prefix \o <<"shortver">>, prefix \o <<"ver">>>>

ThreePerRole(versions) == Flatten([i \in DOMAIN versions |-> ThreeOf(versions[i][2])])

\* what the k-th namespace is to show for the registries t
NamespaceEntries(t, k) ==
    CASE k = 1 -> [i \in DOMAIN t.TEMPLATE_NAMES_EASYCONFIG |->
                      Placeholder(t.TEMPLATE_NAMES_EASYCONFIG[i][1])]
      [] k = 2 -> [i \in DOMAIN ThreePerRole(t.TEMPLATE_SOFTWARE_VERSIONS) |->
                      Placeholder(ThreePerRole(t.TEMPLATE_SOFTWARE_VERSIONS)[i])]
      [] k = 3 -> [i \in DOMAIN t.TEMPLATE_NAMES_CONFIG |->
                      Placeholder(t.TEMPLATE_NAMES_CONFIG[i])]
      [] k = 4 -> [i \in DOMAIN t.TEMPLATE_NAMES_LOWER |->
                      Placeholder(t.TEMPLATE_NAMES_LOWER[i] \o <<"lower">>)]
      [] k = 5 -> [i \in DOMAIN t.TEMPLATE_NAMES_EASYBLOCK_RUN_STEP |->
                      Placeholder(t.TEMPLATE_NAMES_EASYBLOCK_RUN_STEP[i][1])]
      [] k = 6 -> [i \in DOMAIN t.TEMPLATE_NAMES_DYNAMIC |->
                      Placeholder(t.TEMPLATE_NAMES_DYNAMIC[i][1])]
      [] k = 7 -> [i \in DOMAIN t.TEMPLATE_CONSTANTS |-> t.TEMPLATE_CONSTANTS[i][1]]

\* C17: in txt, md and rst the template catalog shows the seven namespaces each
\* once, in the order easyconfig, software versions, config, lowercase, run
\* step, dynamic, constants, also when a namespace is empty, and below each
\* title the entries of that namespace and no other
C17_SevenNamespacesInOrder ==
    TemplatesRequest =>
        /\ TitlesShown(res.text, req.output_format) = NamespaceTitles
        /\ \A k \in DOMAIN NamespaceTitles :
              EntriesShown(NamespaceSection(res.text, req.output_format, k), req.output_format)
                = NamespaceEntries(templates, k)

\* a catalog of filled registries with two software version roles
C17_Witness ==
    /\ TemplatesRequest
    /\ Len(templates.TEMPLATE_SOFTWARE_VERSIONS) = 2
    /\ templates.TEMPLATE_CONSTANTS # <<>>
    /\ templates.TEMPLATE_NAMES_LOWER # <<>>
    /\ Len(TitlesShown(res.text, req.output_format)) = 7

\* the names of the placeholders below the title of the software versions
VersionPlaceholders(text, output_format) ==
    LET shown == EntriesShown(NamespaceSection(text, output_format, 2), output_format)
    IN  [i \in DOMAIN shown |-> Unquote(shown[i], 1)]

\* C18: in txt, md and rst every software version role gives three placeholders
\* in a row, <prefix>majver, <prefix>shortver, <prefix>ver, the roles in the
\* order of the registry: three times as many placeholders as roles, with the
\* same names whatever the format
C18_ThreePerRole ==
    TemplatesRequest =>
        LET names == VersionPlaceholders(res.text, req.output_format)
            roles == templates.TEMPLATE_SOFTWARE_VERSIONS
        IN  /\ Len(names) = 3 * Len(roles)
            /\ \A i \in DOMAIN roles :
                  /\ names[3 * i - 2] = roles[i][2] \o <<"majver">>
                  /\ names[3 * i - 1] = roles[i][2] \o <<"shortver">>
                  /\ names[3 * i] = roles[i][2] \o <<"ver">>

\* a catalog with three software version roles, hence nine placeholders
C18_Witness ==
    /\ TemplatesRequest
    /\ Len(templates.TEMPLATE_SOFTWARE_VERSIONS) = 3
    /\ Len(VersionPlaceholders(res.text, req.output_format)) = 9

-----------------------------------------------------------------------------
(* The tree of the plugin hierarchy *)

\* a request for the hierarchy in a format that has format strings
TreeRequest ==
    /\ req.report = "list_easyblocks"
    /\ req.output_format \in {FORMAT_TXT, FORMAT_MD, FORMAT_RST}

\* how many times chunk stands at the start of str
RECURSIVE LeadingCount(_, _)
LeadingCount(str, chunk) ==
    IF str # <<>> /\ str[1] = chunk THEN 1 + LeadingCount(Tail(str), chunk) ELSE 0

\* the depth that the indentation of a line shows: the indent of txt is '|   ',
\* md and rst start every line below a root with one indent of two spaces
DepthShown(l, output_format) ==
    IF output_format = FORMAT_TXT THEN LeadingCount(l.s, "|   ")
    ELSE LeadingCount(l.s, "  ") - 1

\* the lines of the text that name a class, each as the name and the depth it
\* shows; a root has depth -1
TreeItems(text, output_format) ==
    LET named == SelectSeq(text, LAMBDA l : l.s # <<>>)
    IN  [i \in DOMAIN named |->
            IF IsRootLine(named[i])
            THEN [name |-> IF IsRootLineOf(named[i], EasyBlock) THEN EasyBlock ELSE Extension,
                  depth |-> -1, line |-> named[i]]
            ELSE [name |-> TreeName(named[i].s),
                  depth |-> DepthShown(named[i], output_format), line |-> named[i]]]

\* whether a class of the registry extends a root, directly or not
ExtendsRoot(registry, name) ==
    IsSubclass(registry, name, EasyBlock) \/ IsSubclass(registry, name, Extension)

\* C21: for every hierarchy the tree is returned; a class is named on a line
\* of it if and only if it extends EasyBlock or Extension, directly or not,
\* and no line follows a class without implementing types at a greater depth
C21_ReachableTypesNamed ==
    TreeRequest =>
        /\ res.kind = "return"
        /\ LET items == TreeItems(res.text, req.output_format)
           IN  /\ \A c \in DOMAIN classes :
                     (\E i \in DOMAIN items : items[i].name = classes[c].name)
                        <=> ExtendsRoot(classes, classes[c].name)
               /\ \A i \in DOMAIN items :
                     Implementers(items[i].name) = {} /\ i < Len(items) =>
                        items[i + 1].depth <= items[i].depth

\* a hierarchy with a class that extends neither root and a class that extends
\* it and, two levels down, a root
C21_Witness ==
    /\ TreeRequest
    /\ res.kind = "return"
    /\ \E c \in DOMAIN classes : classes[c].name = Mixin
    /\ \E c \in DOMAIN classes : classes[c].name = Delta /\ Alpha \in Range(classes[c].bases)
    /\ \E i \in DOMAIN TreeItems(res.text, req.output_format) :
          /\ TreeItems(res.text, req.output_format)[i].name = Delta
          /\ TreeItems(res.text, req.output_format)[i].depth = 1

\* the line under which the i-th line stands: the last line before it that is
\* less deep
ParentItem(items, i) ==
    CHOOSE j \in 1..(i - 1) :
        /\ items[j].depth < items[i].depth
        /\ \A k \in (j + 1)..(i - 1) : items[k].depth >= items[i].depth

\* the names on the lines that stand under the j-th line, in their order
ChildItems(items, j) ==
    LET under == SelectSeq([i \in DOMAIN items |-> i],
                           LAMBDA i : i > j /\ items[i].depth = items[j].depth + 1
                                      /\ \A k \in (j + 1)..(i - 1) :
                                            items[k].depth > items[j].depth)
    IN  [n \in DOMAIN under |-> items[under[n]].name]

\* C22: the lines are the pre-order walk of the tree: the first line is a root
\* and the root lines are EasyBlock and Extension in that order; a line is one
\* level deeper than the line it stands under; the lines one level below a
\* line are the implementing types of its class, each once, in ascending
\* order of their lower-cased names; and the indentation shows the depth
C22_PreOrderSortedChildren ==
    TreeRequest /\ res.kind = "return" =>
        LET items == TreeItems(res.text, req.output_format)
            roots == SelectSeq(items, LAMBDA it : it.depth = -1)
        IN  /\ [k \in DOMAIN roots |-> roots[k].name] = <<EasyBlock, Extension>>
            /\ items[1].depth = -1
            /\ \A i \in DOMAIN items :
                  /\ items[i].depth >= -1
                  /\ (i > 1 => items[i].depth <= items[i - 1].depth + 1)
                  /\ (items[i].depth >= 0 =>
                        items[ParentItem(items, i)].depth = items[i].depth - 1)
                  /\ LET children == ChildItems(items, i)
                     IN  /\ Range(children)
                              = {classes[c].name : c \in Implementers(items[i].name)}
                         /\ \A a, b \in DOMAIN children :
                               a < b => StrCmp(lower(children[a]), lower(children[b])) < 0

\* a tree with two levels below the children of a root, where the order of the
\* lower-cased names of two children differs from the order of their names
C22_Witness ==
    /\ TreeRequest
    /\ res.kind = "return"
    /\ \E i \in DOMAIN TreeItems(res.text, req.output_format) :
          /\ TreeItems(res.text, req.output_format)[i].name = Alpha
          /\ ChildItems(TreeItems(res.text, req.output_format), i) = <<beta, Gamma>>
    /\ \E i \in DOMAIN TreeItems(res.text, req.output_format) :
          TreeItems(res.text, req.output_format)[i].depth = 2

\* what a detailed line shows after the name of its class
AfterName(it) ==
    IF it.depth = -1
    THEN SubSeq(it.line.s,
                MinOf({i \in DOMAIN it.line.s : it.line.s[i] \in {" (", "** ("}}) + 1,
                Len(it.line.s))
    ELSE SubSeq(it.line.s, IndexOf(it.line.s, " (") + 1, Len(it.line.s))

\* C23: in detailed mode the call returns; a line shows the module of its class
\* followed by '@ ' and the location when the index of locations has the
\* module, and by no location when it has not, for roots and other classes
C23_AbsentLocationEmpty ==
    TreeRequest /\ req.mode = DETAILED =>
        /\ res.kind = "return"
        /\ \A i \in DOMAIN TreeItems(res.text, req.output_format) :
              LET it == TreeItems(res.text, req.output_format)[i]
                  mod == ClassOf(classes, it.name).module
              IN  AfterName(it)
                    = IF mod \in DOMAIN SampleLocations
                      THEN mod \o (IF it.depth = -1 THEN <<" @ ">> ELSE <<" ", "@ ">>)
                           \o SampleLocations[mod] \o <<")">>
                      ELSE mod \o (IF it.depth = -1 THEN <<>> ELSE <<" ">>) \o <<")">>

\* a detailed tree with a root and a class whose modules have a location and a
\* root and a class whose modules have none
C23_Witness ==
    /\ TreeRequest
    /\ req.mode = DETAILED
    /\ res.kind = "return"
    /\ \E c \in DOMAIN classes : classes[c].name = Alpha
    /\ \E c \in DOMAIN classes : classes[c].name = beta
    /\ ClassOf(classes, Alpha).module \in DOMAIN SampleLocations
    /\ ClassOf(classes, beta).module \notin DOMAIN SampleLocations
    /\ ClassOf(classes, Extension).module \notin DOMAIN SampleLocations

-----------------------------------------------------------------------------
(* The groups of the parameter catalog *)

CatalogRequest ==
    /\ ParamsRequest
    /\ req.output_format \in {FORMAT_TXT, FORMAT_MD, FORMAT_RST}
    /\ res.kind = "return"

\* the line that opens the group of a category
GroupLine(output_format, category) ==
    CASE output_format = FORMAT_TXT -> Line(upper(category[2]))
      [] output_format = FORMAT_MD ->
            Line(<<"## ", upper_char(category[2][1])>> \o Tail(category[2]) \o <<" parameters">>)
      [] output_format = FORMAT_RST -> Line(category[2] \o <<" parameters">>)

GroupStarts(text, output_format) ==
    {i \in DOMAIN text : \E c \in ALL_CATEGORIES : text[i] = GroupLine(output_format, c)}

\* the line of one parameter
IsParamLine(l, output_format) ==
    IF output_format = FORMAT_TXT THEN l.t = "line" /\ Carries(l.s, "[default: ")
    ELSE l.t = "row"

\* what the line of a parameter shows: the name as shown, the name without the
\* marker, the description, the default and the alternative name
ParamShown(l, output_format) ==
    LET shown == IF output_format = FORMAT_TXT THEN TxtParamName(l.s)
                 ELSE Unquote(l.cells[1], 1)
    IN  [shown |-> shown,
         name |-> IF shown[Len(shown)] = "*" THEN SubSeq(shown, 1, Len(shown) - 1) ELSE shown,
         descr |-> IF output_format = FORMAT_TXT
                   THEN <<l.s[IndexOf(l.s, "[default: ") - 2]>> ELSE l.cells[2],
         dflt |-> CASE output_format = FORMAT_TXT ->
                          SubSeq(l.s, IndexOf(l.s, "[default: ") + 1, IndexOf(l.s, "]") - 1)
                    [] output_format = FORMAT_MD -> Unquote(l.cells[3], 1)
                    [] output_format = FORMAT_RST -> l.cells[3],
         alt |-> IF output_format = FORMAT_TXT
                 THEN (IF Carries(l.s, " {alternative: ")
                       THEN SubSeq(l.s, IndexOf(l.s, " {alternative: ") + 1, Len(l.s) - 1)
                       ELSE <<>>)
                 ELSE (IF l.cells[4] = <<>> THEN <<>> ELSE Unquote(l.cells[4], 1))]

\* the groups that the text shows, in their order: the category of the group
\* and the parameters listed in it
GroupsShown(text, output_format) ==
    LET starts == SelectSeq([i \in DOMAIN text |-> i],
                            LAMBDA i : i \in GroupStarts(text, output_format))
    IN  [g \in DOMAIN starts |->
            [category |-> CHOOSE c \in ALL_CATEGORIES :
                              text[starts[g]] = GroupLine(output_format, c),
             params |->
                LET lines == SelectSeq(SectionFrom(text, starts[g],
                                                   GroupStarts(text, output_format)),
                                       LAMBDA l : IsParamLine(l, output_format))
                IN  [k \in DOMAIN lines |-> ParamShown(lines[k], output_format)]]]

\* the category of a parameter in the merged schema: the one the plugin gives
\* it, or else the one of the base schema
MergedCategory(n) ==
    IF n \in DOMAIN ExtrasOfRequest THEN ExtrasOfRequest[n][3] ELSE DEFAULT_CONFIG[n][3]

\* C24: every parameter of the merged schema outside the hidden category is
\* listed once, in the group of its category; the groups follow the order of
\* sorted_categories(); and in a group the names are in ascending order
C24_GroupedByCategory ==
    CatalogRequest =>
        LET groups == GroupsShown(res.text, req.output_format)
        IN  /\ \A g, h \in DOMAIN groups :
                  g < h => IndexIn(sorted_categories, groups[g].category)
                              < IndexIn(sorted_categories, groups[h].category)
            /\ \A n \in (DOMAIN DEFAULT_CONFIG) \cup (DOMAIN ExtrasOfRequest) :
                  MergedCategory(n) # CatHidden =>
                      /\ Cardinality({<<g, k>> \in (DOMAIN groups) \X (1..Len(res.text)) :
                                         /\ k \in DOMAIN groups[g].params
                                         /\ groups[g].params[k].name = n}) = 1
                      /\ \A g \in DOMAIN groups :
                            (\E k \in DOMAIN groups[g].params : groups[g].params[k].name = n)
                               => groups[g].category = MergedCategory(n)
            /\ \A g \in DOMAIN groups :
                  \A j, k \in DOMAIN groups[g].params :
                      j < k => StrCmp(groups[g].params[j].shown, groups[g].params[k].shown) < 0

\* a catalog with three groups, one of them with two parameters
C24_Witness ==
    /\ CatalogRequest
    /\ Len(GroupsShown(res.text, req.output_format)) = 3
    /\ \E g \in DOMAIN GroupsShown(res.text, req.output_format) :
          Len(GroupsShown(res.text, req.output_format)[g].params) >= 2

\* the names that have a declared alternative name
WithAlternative ==
    {ALTERNATIVE_EASYCONFIG_PARAMETERS[a] : a \in DOMAIN ALTERNATIVE_EASYCONFIG_PARAMETERS}

AlternativeOf(n) ==
    CHOOSE a \in DOMAIN ALTERNATIVE_EASYCONFIG_PARAMETERS :
        ALTERNATIVE_EASYCONFIG_PARAMETERS[a] = n

\* the parameters that the text shows, over all groups
ParamsShown(text, output_format) ==
    LET lines == SelectSeq(text, LAMBDA l : IsParamLine(l, output_format))
    IN  [k \in DOMAIN lines |-> ParamShown(lines[k], output_format)]

\* C25: a parameter whose name has a declared alternative name is shown with
\* that alternative name, be it a parameter of the base schema or of the
\* plugin, and a parameter without one is shown with none
C25_AlternativeShown ==
    CatalogRequest =>
        \A k \in DOMAIN ParamsShown(res.text, req.output_format) :
            LET p == ParamsShown(res.text, req.output_format)[k]
            IN  p.alt = IF p.name \in WithAlternative THEN AlternativeOf(p.name) ELSE <<>>

\* what the code does: the alternative name is looked up under the name as it
\* is shown, so a parameter of the plugin, shown with the marker, has none
C25_AlternativeOfUnmarked ==
    CatalogRequest =>
        \A k \in DOMAIN ParamsShown(res.text, req.output_format) :
            LET p == ParamsShown(res.text, req.output_format)[k]
            IN  p.alt = IF p.shown \in WithAlternative THEN AlternativeOf(p.shown) ELSE <<>>

\* a catalog that shows a base parameter with its alternative name and a
\* parameter of the plugin whose name has an alternative name
C25_Witness ==
    /\ CatalogRequest
    /\ \E k \in DOMAIN ParamsShown(res.text, req.output_format) :
          /\ ParamsShown(res.text, req.output_format)[k].alt # <<>>
    /\ \E k \in DOMAIN ParamsShown(res.text, req.output_format) :
          /\ ParamsShown(res.text, req.output_format)[k].name \in WithAlternative
          /\ ParamsShown(res.text, req.output_format)[k].name \in DOMAIN ExtrasOfRequest

\* the names that the plugin of the request and the base schema both define
SharedNames == (DOMAIN ExtrasOfRequest) \cap (DOMAIN DEFAULT_CONFIG)

\* C27: a parameter that the plugin and the base schema both define is shown
\* once, with the marker, in the group of the category the plugin gives it,
\* with the description and the default of the plugin
C27_PluginReplacesBase ==
    CatalogRequest =>
        \A n \in SharedNames :
            ExtrasOfRequest[n][3] # CatHidden =>
                LET groups == GroupsShown(res.text, req.output_format)
                    at == {<<g, k>> \in (DOMAIN groups) \X (1..Len(res.text)) :
                              /\ k \in DOMAIN groups[g].params
                              /\ groups[g].params[k].name = n}
                IN  /\ Cardinality(at) = 1
                    /\ \A x \in at :
                          /\ groups[x[1]].category = ExtrasOfRequest[n][3]
                          /\ groups[x[1]].params[x[2]].shown = n \o <<"*">>
                          /\ groups[x[1]].params[x[2]].descr = ExtrasOfRequest[n][2]
                          /\ groups[x[1]].params[x[2]].dflt = quote_str(ExtrasOfRequest[n][1])

\* a catalog of a plugin that gives a parameter of the base schema another
\* category, description and default
C27_Witness ==
    /\ CatalogRequest
    /\ \E n \in SharedNames :
          /\ ExtrasOfRequest[n][3] # DEFAULT_CONFIG[n][3]
          /\ ExtrasOfRequest[n][2] # DEFAULT_CONFIG[n][2]
          /\ ExtrasOfRequest[n][1] # DEFAULT_CONFIG[n][1]
          /\ DEFAULT_CONFIG[n][3] # CatHidden

-----------------------------------------------------------------------------
(* Requests in a format without a renderer *)

\* C26: a request in a format without a renderer fails before anything is
\* gathered: no recipe is parsed, no catalog of software is built, no
\* toolchain is instantiated and nothing is prepared for a renderer
C26_FailsBeforeGathering ==
    UnsupportedRequest =>
        /\ res.kind # "return"
        /\ obs.parsed = 0
        /\ obs.all_software = <<>>
        /\ obs.instantiated = {}

\* what the code does: the request fails and returns no text, but the format is
\* looked at last: list_software has parsed every recipe, list_toolchains and
\* avail_toolchain_opts have instantiated the toolchains they show; only
\* list_easyblocks fails before it gathers
C26_FailsAfterGathering ==
    UnsupportedRequest =>
        /\ res.kind \in {"KeyError", "NotImplementedError", "EasyBuildError"}
        /\ res.text = <<>>
        /\ (req.report = "list_software" => obs.parsed = Len(ec_files))
        /\ (req.report = "list_toolchains" => obs.instantiated = DOMAIN toolchains)
        /\ (req.report = "avail_toolchain_opts" =>
                obs.instantiated = {req.name})
        /\ (req.report = "list_easyblocks" => obs = NoObs /\ handed = NotHanded)

\* a request for the software catalog in a format without a renderer, in a
\* process that finds recipes
C26_Witness ==
    /\ UnsupportedRequest
    /\ req.report = "list_software"
    /\ ec_files # <<>>
    /\ obs.parsed > 0
    /\ res.kind = "KeyError"

-----------------------------------------------------------------------------
(* The description and homepage of a software name *)

\* the line of the homepage in the part of a software name
HomepagePrefix(output_format) ==
    CASE output_format = FORMAT_TXT -> "homepage: "
      [] output_format = FORMAT_MD -> "*homepage*: <"
      [] output_format = FORMAT_RST -> "*homepage*: "
IsHomepageLine(l, output_format) ==
    l.t = "line" /\ l.s # <<>> /\ l.s[1] = HomepagePrefix(output_format)

HomepageLines(text, output_format, key) ==
    {i \in DOMAIN SectionOf(text, output_format, key) :
        IsHomepageLine(SectionOf(text, output_format, key)[i], output_format)}

\* the homepage shown for a software name; md puts it between < and >
HomepageShown(text, output_format, key) ==
    LET s == SectionOf(text, output_format, key)[
                 CHOOSE i \in HomepageLines(text, output_format, key) : TRUE].s
    IN  IF output_format = FORMAT_MD THEN SubSeq(s, 2, Len(s) - 1) ELSE Tail(s)

\* the description shown for a software name: two lines above its homepage
DescriptionShown(text, output_format, key) ==
    SectionOf(text, output_format, key)[
        (CHOOSE i \in HomepageLines(text, output_format, key) : TRUE) - 2].s

\* a description on one line, its line breaks being blanks
OnOneLine(descr) == [i \in DOMAIN descr |-> IF descr[i] = "\n" THEN " " ELSE descr[i]]

\* the recipes found whose entry is in the catalog handed to the renderer
RetainedRecipes(key) ==
    {i \in DOMAIN ec_files :
        /\ ec_files[i].name = key
        /\ req.only_installed => full_mod_name(ec_files[i]) \in req.avail_mod_names}

LastRecipe(key) == ec_files[MaxOf(RetainedRecipes(key))]

\* C28: in the detailed catalog (txt, md, rst) a software name is shown with
\* one homepage and one description, those of the last entry of that name in
\* the catalog, which is the entry of the last recipe of that name that was
\* found and, when only installed software is listed, retained
C28_LastEntryDescribes ==
    DetailedCatalog =>
        \A k \in SoftwareKeys :
            /\ Cardinality(HomepageLines(res.text, req.output_format, k)) = 1
            /\ HomepageShown(res.text, req.output_format, k)
                  = EntriesOf(k)[Len(EntriesOf(k))].homepage
            /\ DescriptionShown(res.text, req.output_format, k)
                  = OnOneLine(EntriesOf(k)[Len(EntriesOf(k))].description)
            /\ RetainedRecipes(k) # {}
            /\ DescriptionShown(res.text, req.output_format, k)
                  = OnOneLine(LastRecipe(k).description)

\* two recipes of one name with different descriptions and homepages were
\* found, and the catalog shows those of the second
C28_Witness ==
    /\ DetailedCatalog
    /\ Len(ec_files) = 2
    /\ ec_files[1].name = ec_files[2].name
    /\ ec_files[1].description # ec_files[2].description
    /\ ec_files[1].homepage # ec_files[2].homepage
    /\ Len(EntriesOf(ec_files[2].name)) = 2
    /\ EntriesOf(ec_files[2].name)[1].homepage # EntriesOf(ec_files[2].name)[2].homepage
    /\ HomepageShown(res.text, req.output_format, ec_files[2].name)
          = EntriesOf(ec_files[2].name)[2].homepage
    /\ DescriptionShown(res.text, req.output_format, ec_files[2].name)
          = OnOneLine(ec_files[2].description)

-----------------------------------------------------------------------------
(* The software catalog in json *)

JsonCatalog ==
    /\ SoftwareRequest
    /\ req.output_format = FORMAT_JSON
    /\ res.kind = "return"

\* the objects of the array, in their order
IsJsonObject(l) == l.t = "json"
JsonObjects(text) == SelectSeq(text, IsJsonObject)

\* the value of a member of an object, and the names of its members
MemberValue(obj, k) ==
    LET c == obj.cells[CHOOSE i \in DOMAIN obj.cells : obj.cells[i][1] = k]
    IN  SubSeq(c, 3, Len(c))
MemberNames(obj) == [i \in DOMAIN obj.cells |-> obj.cells[i][1]]

ObjectNames(objs) == [i \in DOMAIN objs |-> MemberValue(objs[i], "name")]
ObjectsOf(objs, key) ==
    SelectSeq(objs, LAMBDA o : MemberValue(o, "name") = key)

\* the names in case-insensitive order, equal names next to each other
InCIOrder(names) ==
    \A i, j \in DOMAIN names :
        i < j => /\ StrCmp(lower(names[i]), lower(names[j])) <= 0
                 /\ (names[i] = names[j] => \A m \in i..j : names[m] = names[i])

\* an object shows the version, versionsuffix and toolchain of an entry
ShowsEntry(obj, e) ==
    /\ MemberValue(obj, "version") = e.version
    /\ MemberValue(obj, "versionsuffix") = e.versionsuffix
    /\ MemberValue(obj, "toolchain") = e.toolchain
    /\ MemberValue(obj, "homepage") = e.homepage

\* C29: the json catalog is '[', the objects and ']'.  The objects are in
\* case-insensitive order of their names.  When not detailed there is one
\* object for every software name, holding its name only; when detailed there
\* is one object for every entry of the catalog, in the order of the entries,
\* also for entries with the same version, versionsuffix and toolchain.  Every
\* object but the last is followed by a comma, the last by none; an empty
\* catalog gives '[' and ']' only, and the mapping handed in is as it was
C29_JsonObjects ==
    JsonCatalog =>
        LET objs == JsonObjects(res.text)
        IN  /\ res.text = <<Line(<<"[">>)>> \o objs \o <<Line(<<"]">>)>>
            /\ InCIOrder(ObjectNames(objs))
            /\ Range(ObjectNames(objs)) = SoftwareKeys
            /\ ~req.detailed =>
                  /\ NoRepeat(ObjectNames(objs))
                  /\ \A i \in DOMAIN objs : MemberNames(objs[i]) = <<"name">>
            /\ req.detailed =>
                  \A k \in SoftwareKeys :
                      /\ Len(ObjectsOf(objs, k)) = Len(EntriesOf(k))
                      /\ \A j \in DOMAIN EntriesOf(k) :
                            ShowsEntry(ObjectsOf(objs, k)[j], EntriesOf(k)[j])
            /\ \A i \in DOMAIN objs : objs[i].s = IF i < Len(objs) THEN <<",">> ELSE <<>>
            /\ (HandedSoftware = <<>> => res.text = <<Line(<<"[">>), Line(<<"]">>)>>)
            /\ obs.software_after = HandedSoftware

\* the detailed json catalog of two recipes that gave the same name, version,
\* versionsuffix and toolchain has two objects, the first followed by a comma
C29_Witness ==
    /\ JsonCatalog
    /\ req.detailed
    /\ Len(ec_files) = 2
    /\ ec_files[1] = ec_files[2]
    /\ Len(JsonObjects(res.text)) = 2
    /\ JsonObjects(res.text)[1].cells = JsonObjects(res.text)[2].cells
    /\ JsonObjects(res.text)[1].s = <<",">>
    /\ JsonObjects(res.text)[2].s = <<>>
    /\ Len(EntriesOf(ec_files[1].name)) = 2
    /\ EntriesOf(ec_files[1].name)[1].description
          # MemberValue(JsonObjects(res.text)[1], "description")

-----------------------------------------------------------------------------
(* The letters of the software catalog in md and rst *)

LetterCatalog ==
    /\ SoftwareRequest
    /\ req.output_format \in {FORMAT_MD, FORMAT_RST}
    /\ res.kind = "return"

\* the line that opens the section of a letter, and the character it is of
IsLetterHeader(l, output_format) ==
    /\ l.t = "line"
    /\ IF output_format = FORMAT_MD
       THEN Len(l.s) = 2 /\ l.s[1] = "## "
       ELSE Len(l.s) = 3 /\ l.s[1] = ".. _list_software_letter_" /\ l.s[3] = ":"
LetterOfHeader(l) == lower_char(l.s[2])

LetterStarts(text, output_format) ==
    {i \in DOMAIN text : IsLetterHeader(text[i], output_format)}

\* the elements of a sequence at the positions of a set, in their order
RECURSIVE AtPositions(_, _)
AtPositions(seq, S) ==
    IF S = {} THEN <<>>
    ELSE <<seq[MinOf(S)]>> \o AtPositions(seq, S \ {MinOf(S)})

\* the characters that have a section, in the order of the sections
SectionLetters(text, output_format) ==
    LET heads == AtPositions(text, LetterStarts(text, output_format))
    IN  [i \in DOMAIN heads |-> LetterOfHeader(heads[i])]

\* the line of a software name in the catalog
NameLine(output_format, detailed, key) ==
    IF detailed THEN EntryHeader(output_format, key) ELSE Line(<<"* ">> \o key)

\* the names listed in the section that starts at start, in their order
NamesUnder(text, output_format, detailed, start) ==
    LET sec == SectionFrom(text, start, LetterStarts(text, output_format))
        named == {i \in DOMAIN sec :
                     \E k \in SoftwareKeys : sec[i] = NameLine(output_format, detailed, k)}
        ls == AtPositions(sec, named)
    IN  [i \in DOMAIN ls |->
            CHOOSE k \in SoftwareKeys : ls[i] = NameLine(output_format, detailed, k)]

\* the letters of the links of the index at the top, in their order
IndexLine(text, output_format) ==
    IF output_format = FORMAT_MD THEN text[5].s ELSE text[6].s
IsIndexLink(piece, output_format) ==
    IF output_format = FORMAT_MD
    THEN /\ Len(piece) = 5
         /\ piece[1] = "[" /\ piece[3] = "](#" /\ piece[5] = ")" /\ piece[2] = piece[4]
    ELSE /\ Len(piece) = 5
         /\ piece[1] = ":ref:" /\ piece[2] = BQ /\ piece[3] = "list_software_letter_"
         /\ piece[5] = BQ
IndexLinks(text, output_format) == Split(IndexLine(text, output_format), " - ")
IndexLinkLetters(text, output_format) ==
    [i \in DOMAIN IndexLinks(text, output_format) |-> IndexLinks(text, output_format)[i][4]]

\* the lower-cased first characters of the names of the catalog
FirstCharacters == {lower_char(k[1]) : k \in SoftwareKeys}
IsAsciiLetter(c) == ord(c) \in 97..122

Ascending(chars) == \A i, j \in DOMAIN chars : i < j => ord(chars[i]) < ord(chars[j])
NamesAscendingCI(names) ==
    \A i, j \in DOMAIN names : i < j => StrCmp(lower(names[i]), lower(names[j])) < 0

\* C30: in the md and rst catalog every lower-cased first character of a
\* software name has exactly one section, the sections are in ascending order
\* of their characters, the section of a character lists exactly the names
\* that start with it, in case-insensitive order, and the index at the top
\* has one link for every such character from a to z, in alphabetical order,
\* and none for any other character
C30_LetterSections ==
    LetterCatalog =>
        /\ Ascending(SectionLetters(res.text, req.output_format))
        /\ Range(SectionLetters(res.text, req.output_format)) = FirstCharacters
        /\ \A i \in LetterStarts(res.text, req.output_format) :
              LET names == NamesUnder(res.text, req.output_format, req.detailed, i)
              IN  /\ NamesAscendingCI(names)
                  /\ Range(names) = {k \in SoftwareKeys :
                                        lower_char(k[1]) = LetterOfHeader(res.text[i])}
        /\ \A i \in DOMAIN IndexLinks(res.text, req.output_format) :
              IsIndexLink(IndexLinks(res.text, req.output_format)[i], req.output_format)
        /\ Ascending(IndexLinkLetters(res.text, req.output_format))
        /\ Range(IndexLinkLetters(res.text, req.output_format))
              = {c \in FirstCharacters : IsAsciiLetter(c)}

\* a catalog of three names, two of one letter in different case and one that
\* starts with a digit: two sections, the one of the letter with both names,
\* and one link
C30_Witness ==
    /\ LetterCatalog
    /\ SoftwareKeys = {<<"F","o","o">>, <<"f","a","b">>, <<"7","z">>}
    /\ SectionLetters(res.text, req.output_format) = <<"7", "f">>
    /\ IndexLinkLetters(res.text, req.output_format) = <<"f">>
    /\ \E i \in LetterStarts(res.text, req.output_format) :
          NamesUnder(res.text, req.output_format, req.detailed, i)
              = <<<<"f","a","b">>, <<"F","o","o">>>>

=============================================================================
